---- MODULE Spec2Model ----
(***************************************************************************)
(* State-machine model of the installd command core                        *)
(* (cmds/installd/commands.cpp): move_complete_app, dexopt with its forked *)
(* child, and idmap with its forked child.  Every command is modelled      *)
(* step by step; every system call or helper whose result the code tests   *)
(* may fail nondeterministically.                                          *)
(***************************************************************************)
EXTENDS Integers, Sequences, FiniteSets, TLC

(***************************************************************************)
(* Bounds                                                                  *)
(***************************************************************************)
MaxUser == 1

Users == 0..MaxUser

\* Volume uuids: "null" is the distinguished null uuid (internal storage).
Vols == {"null", "ext"}

FLAG_CE_STORAGE == {"CE"}

FLAG_DE_STORAGE == {"DE"}

(***************************************************************************)
(* Path families used by move_complete_app.  A path is a tuple; the        *)
(* package name and the data_app_name are fixed for one call.              *)
(***************************************************************************)
create_data_app_package_path(uuid) == <<"app", uuid>>

create_data_user_path(uuid, user) == <<"user", uuid, user>>

create_data_user_package_path(uuid, user) == <<"ce", uuid, user>>

create_data_user_de_package_path(uuid, user) == <<"de", uuid, user>>

MovePaths ==
    {create_data_app_package_path(v) : v \in Vols}
    \cup {create_data_user_path(v, u) : v \in Vols, u \in Users}
    \cup {create_data_user_package_path(v, u) : v \in Vols, u \in Users}
    \cup {create_data_user_de_package_path(v, u) : v \in Vols, u \in Users}

\* What is at a directory path:
\*   absent    nothing
\*   pre       a directory that existed before the call, untouched by it
\*   made      created by a preparer in this call (mode/owner set, no label)
\*   ready     prepared and labelled with setfilecon in this call
\*   copied    cp wrote the whole source tree into it
\*   partial   cp failed after writing part of the tree, or a recursive
\*             delete failed half way
\*   relabeled copied and then restorecon'ed
DirVal == {"absent", "pre", "made", "ready", "copied", "partial", "relabeled"}

WrittenByCall == {"made", "ready", "copied", "partial", "relabeled"}

VARIABLES
    mfs,    \* move_complete_app: the directories, [MovePaths -> DirVal]
    mv,     \* move_complete_app: the state of the call
    dfs,    \* dexopt / idmap: the files at the input, output and swap paths
    dx,     \* dexopt: the state of the call in the parent
    ch,     \* the forked child of dexopt or idmap
    im,     \* idmap: the state of the call in the parent
    rx,     \* two dexopt invocations on one output path, in two processes
    afs,    \* app-data commands: the directories they act on
    ad,     \* app-data commands: the state of the call
    fc,     \* free_cache: the volume and the state of the call
    op      \* linklib and the helper functions: the call and what it acts on

vars == <<mfs, mv, dfs, dx, ch, im, rx, afs, ad, fc, op>>

(***************************************************************************)
(* dexopt: files, descriptors and the idle states                          *)
(***************************************************************************)
\* File descriptors of the parent: <<kind, user>>.
InputFd == <<"input", 0>>

OutFd == <<"out", 0>>

SwapFd == <<"swap", 0>>

ProfileFd(u) == <<"prof", u>>

ReferenceProfileFd(u) == <<"ref", u>>

\* A file the call did not create, as found at the output path.
OldOutFile ==
    [kind |-> "file", mode |-> "0644", owner |-> <<"old", "old">>, time |-> "t_old",
     by |-> "old"]

\* Nothing at the path.
NoFile ==
    [kind |-> "absent", mode |-> "-", owner |-> <<"-", "-">>, time |-> "-", by |-> "-"]

\* A directory at the path (unlink fails on it, open O_EXCL fails on it).
DirEntry ==
    [kind |-> "dir", mode |-> "0771", owner |-> <<"old", "old">>, time |-> "t_dir",
     by |-> "old"]

\* dfs.out: NoFile, DirEntry or a file record; dfs.swap: "absent", "old" (a
\* file left at <out_path>.swap before the call) or "call" (created by the
\* call); dfs.apk, dfs.odex: whether the APK and the precompiled .odex exist.
\* dfs.idmap: what is at idmap_path.
DexFsNone ==
    [out |-> NoFile, swap |-> "absent", apk |-> FALSE, odex |-> FALSE, idmap |-> NoFile]

DexArgsNone ==
    [use_profiles |-> FALSE, dexopt_needed |-> "DEXOPT_DEX2OAT_NEEDED",
     oat_dir |-> "null", is_public |-> FALSE, boot_complete |-> FALSE]

DexIdle ==
    [pc |-> "idle", a |-> DexArgsNone, lists |-> {}, open |-> {}, in_time |-> "t_zero",
     created |-> FALSE, forked |-> FALSE, res |-> 0, ret |-> 0, how |-> "none"]

IdmapFd == <<"idmap", 0>>

IdmapIdle ==
    [pc |-> "idle", open |-> {}, created |-> FALSE, forked |-> FALSE, res |-> 0, ret |-> 0]

\* The processes of the two racing invocations.
Procs == {1, 2}

\* What out_path names: nothing, a file from before the calls, or the inode
\* created by the open() of process i.
NoInode == <<"none", 0>>

OldInode == <<"old", 0>>

Inode(i) == <<"new", i>>

\* rx.path: what out_path names; rx.locked[i]: whether the inode created by process i
\* is flock'ed; rx.p[i]: process i (pc, whether out_fd is open, its child).
RaceProcIdle == [pc |-> "idle", fd |-> FALSE, cpc |-> "none", exit |-> -1, ret |-> 0]

RaceIdle ==
    [path |-> NoInode, locked |-> [i \in Procs |-> FALSE], p |-> [i \in Procs |-> RaceProcIdle]]

\* A package directory (CE or DE) of one user: kind "absent" or "dir", its
\* mode, owner and SELinux label, and what it holds: the cache and
\* code_cache subdirectories ("absent", "empty" or "full") and whether
\* there is anything else in it.
NoDir ==
    [kind |-> "absent", mode |-> "-", owner |-> "-", label |-> "-",
     cache |-> "absent", code_cache |-> "absent", files |-> FALSE]

\* afs: the package directories afs.ce and afs.de, their parents afs.user
\* and afs.user_de, the user's media and config directories, and the
\* directories <oat_dir> and <oat_dir>/<isa>.
AppFsNone ==
    [ce |-> NoDir, de |-> NoDir, user |-> "absent", user_de |-> "absent",
     media |-> "absent", config |-> "absent", oat |-> "absent", oat_isa |-> "absent"]

\* ad: the command served (cmd), its arguments (flags; only: the subtree
\* clear_app_data is restricted to; uuid; valid: whether the validator
\* accepts the path and pkgName / seinfo are not null), the returned value,
\* the filesystem at the call (fs0) and the helper calls made with their
\* results, in order (log: <<helper, directory, rc>>).
AppIdle ==
    [pc |-> "idle", cmd |-> "none", flags |-> {}, only |-> "all", uuid |-> "null",
     valid |-> TRUE, ret |-> 0, fs0 |-> AppFsNone, log |-> <<>>]

\* A directory entry read by free_cache: the kind of its name ("digit":
\* starts with a digit, "alpha", "dot": "." or "..", "long": too long for
\* the path buffer), whether it is a directory, and whether it holds an
\* Android directory and, inside that, a data directory.
NoEntry == [name |-> "-", isdir |-> FALSE, android |-> FALSE, data |-> FALSE]

\* fc: the free bytes of the volume (free), the target (F), the entries
\* under the user root and the media root, the first and the last answer
\* of data_disk_free (first, avail; qok: the last query succeeded), the
\* cache-collection session, the roots added to it ([root, e]), whether
\* the evictor ran and the bytes it deleted.
CacheIdle ==
    [pc |-> "idle", uuid |-> "null", F |-> 0, free |-> 0, users |-> {}, media |-> {},
     first |-> 0, avail |-> 0, qok |-> TRUE, session |-> "none", roots |-> {},
     evictor |-> FALSE, deleted |-> 0, ret |-> 0]

\* No call of linklib or of a helper function is under way; a call adds its
\* arguments, what it acts on and its result to the record.
NoCall == [pc |-> "idle", fn |-> "none"]

NoChild ==
    [pc |-> "none", gid |-> "root", uid |-> "root", caps |-> TRUE, bg |-> FALSE,
     locked |-> FALSE, exit |-> -1, failed |-> "none", steps |-> <<>>]

(***************************************************************************)
(* create_app_data                                                         *)
(***************************************************************************)
\* fs_prepare_dir_strict(path, 0751, uid, uid): the outcomes <<rc, dir'>>.
\* A missing directory is created; an existing one is accepted only when its
\* mode and owner match (the mismatch is the nondeterministic failure).
fs_prepare_dir_strict(d) ==
    IF d = "absent"
    THEN {<<0, "made">>, <<-1, "absent">>, <<-1, "made">>}
    ELSE {<<0, d>>, <<-1, d>>}

\* One storage class of create_app_data: prepare, then setfilecon; the
\* outcomes <<rc, fs'>>.
PrepareClass(fs, path) ==
    UNION {
        IF p[1] # 0
        THEN {<<-1, [fs EXCEPT ![path] = p[2]]>>}
        ELSE {<<-1, [fs EXCEPT ![path] = p[2]]>>,
              <<0, [fs EXCEPT ![path] = "ready"]>>}
        : p \in fs_prepare_dir_strict(fs[path])}

\* create_app_data(uuid, pkg, user, flags, appid, seinfo): outcomes <<rc, fs'>>.
create_app_data(fs, uuid, user, flags) ==
    LET ce == IF FLAG_CE_STORAGE \subseteq flags
              THEN PrepareClass(fs, create_data_user_package_path(uuid, user))
              ELSE {<<0, fs>>}
    IN UNION {
        IF c[1] # 0 THEN {c}
        ELSE IF FLAG_DE_STORAGE \subseteq flags
             THEN PrepareClass(c[2], create_data_user_de_package_path(uuid, user))
             ELSE {c}
        : c \in ce}

(***************************************************************************)
(* restorecon_app_data                                                     *)
(***************************************************************************)
\* selinux_android_restorecon_pkgdir on one directory: <<rc, dir'>>.
restorecon_pkgdir(d) ==
    IF d = "absent" THEN {<<-1, d>>}
    ELSE {<<0, IF d = "copied" THEN "relabeled" ELSE d>>, <<-1, d>>}

\* restorecon_app_data(uuid, pkg, user, flags, appid, seinfo): <<rc, fs'>>.
\* A failure on CE sets res = -1; a failure on DE is logged only.
restorecon_app_data(fs, uuid, user, flags) ==
    LET cp == create_data_user_package_path(uuid, user)
        dp == create_data_user_de_package_path(uuid, user)
        ce == IF FLAG_CE_STORAGE \subseteq flags
              THEN {<<r[1], [fs EXCEPT ![cp] = r[2]]>> : r \in restorecon_pkgdir(fs[cp])}
              ELSE {<<0, fs>>}
    IN UNION {
        IF FLAG_DE_STORAGE \subseteq flags
        THEN {<<c[1], [c[2] EXCEPT ![dp] = r[2]]>> : r \in restorecon_pkgdir(c[2][dp])}
        ELSE {c}
        : c \in ce}

(***************************************************************************)
(* move_complete_app                                                       *)
(***************************************************************************)
\* cp -F -p -R -P -d from to_parent: the outcomes <<rc, dst'>> for the
\* destination entry.  Copying needs an existing source; a failed copy may
\* have written part of the tree.  A copy onto itself changes nothing.
CopyTree(fs, from, to) ==
    IF from = to THEN {<<0, fs[to]>>, <<1, fs[to]>>}
    ELSE IF fs[from] = "absent" THEN {<<1, fs[to]>>}
    ELSE {<<0, "copied">>, <<1, fs[to]>>, <<1, "partial">>}

\* delete_dir_contents(path, 1, NULL): what is left at the path when the
\* recursive delete ends as `how` ("ok", "fail": nothing removed, "partial":
\* stopped half way).
delete_dir_contents_and_dir(d, how) ==
    IF d = "absent" \/ how = "fail" THEN d
    ELSE IF how = "ok" THEN "absent"
    ELSE "partial"

\* The users in the order the vector is walked.
RECURSIVE UserSeq(_)
UserSeq(S) ==
    IF S = {} THEN <<>>
    ELSE LET m == CHOOSE x \in S : \A y \in S : x <= y
         IN <<m>> \o UserSeq(S \ {m})

MoveIdle ==
    [pc |-> "idle", from |-> "null", to |-> "null", users |-> {},
     todo |-> <<>>, ret |-> 0, rbfail |-> FALSE, fs0 |-> [p \in MovePaths |-> "absent"]]

\* The initial trees: a user directory exists exactly when the package has
\* data below it, and a package's CE and DE directories of a user exist
\* together (create_app_data makes both).
MoveFsOk(fs) ==
    \A v \in Vols, u \in Users :
        /\ fs[create_data_user_path(v, u)] = fs[create_data_user_package_path(v, u)]
        /\ fs[create_data_user_de_package_path(v, u)] =
               fs[create_data_user_package_path(v, u)]

MoveInit ==
    /\ mfs \in [MovePaths -> {"absent", "pre"}]
    /\ MoveFsOk(mfs)
    /\ mv = MoveIdle
    /\ dfs = DexFsNone
    /\ dx = DexIdle
    /\ ch = NoChild
    /\ im = IdmapIdle
    /\ rx = RaceIdle
    /\ afs = AppFsNone
    /\ ad = AppIdle
    /\ fc = CacheIdle
    /\ op = NoCall

\* Entry: users = get_known_users(from_uuid).
MoveCall ==
    /\ mv.pc = "idle"
    /\ \E f \in Vols, t \in Vols, us \in SUBSET Users :
          mv' = [mv EXCEPT !.pc = "copy_app", !.from = f, !.to = t, !.users = us,
                           !.todo = UserSeq(us), !.fs0 = mfs]
    /\ UNCHANGED mfs

\* "Copy app": android_fork_execvp(cp ...); rc != 0 goes to fail.
MoveCopyApp ==
    /\ mv.pc = "copy_app"
    /\ \E r \in CopyTree(mfs, create_data_app_package_path(mv.from),
                              create_data_app_package_path(mv.to)) :
          /\ mfs' = [mfs EXCEPT ![create_data_app_package_path(mv.to)] = r[2]]
          /\ mv' = [mv EXCEPT !.pc = IF r[1] = 0 THEN "restorecon_app" ELSE "fail"]

\* selinux_android_restorecon(to, RECURSE) on the copied app directory.
MoveRestoreconApp ==
    /\ mv.pc = "restorecon_app"
    /\ \E r \in restorecon_pkgdir(mfs[create_data_app_package_path(mv.to)]) :
          /\ mfs' = [mfs EXCEPT ![create_data_app_package_path(mv.to)] = r[2]]
          /\ mv' = [mv EXCEPT !.pc = IF r[1] = 0 THEN "loop" ELSE "fail"]

\* Loop head and the access(from, F_OK) test: a user without source data is
\* skipped; after the last user the call returns 0.
MoveLoop ==
    /\ mv.pc = "loop"
    /\ IF mv.todo = <<>>
       THEN mv' = [mv EXCEPT !.pc = "done", !.ret = 0]
       ELSE IF mfs[create_data_user_package_path(mv.from, Head(mv.todo))] = "absent"
            THEN mv' = [mv EXCEPT !.todo = Tail(mv.todo)]
            ELSE mv' = [mv EXCEPT !.pc = "prepare_user"]
    /\ UNCHANGED mfs

\* fs_prepare_dir(user_path, 0771, AID_SYSTEM, AID_SYSTEM).
MovePrepareUser ==
    /\ mv.pc = "prepare_user"
    /\ LET up == create_data_user_path(mv.to, Head(mv.todo))
       IN \E r \in fs_prepare_dir_strict(mfs[up]) :
             /\ mfs' = [mfs EXCEPT ![up] = r[2]]
             /\ mv' = [mv EXCEPT !.pc = IF r[1] = 0 THEN "create_app_data" ELSE "fail"]

\* create_app_data(to_uuid, package_name, user, CE | DE, appid, seinfo).
MoveCreateAppData ==
    /\ mv.pc = "create_app_data"
    /\ \E r \in create_app_data(mfs, mv.to, Head(mv.todo),
                                FLAG_CE_STORAGE \cup FLAG_DE_STORAGE) :
          /\ mfs' = r[2]
          /\ mv' = [mv EXCEPT !.pc = IF r[1] = 0 THEN "copy_user" ELSE "fail"]

\* The per-user cp of the CE package directory.
MoveCopyUser ==
    /\ mv.pc = "copy_user"
    /\ LET u == Head(mv.todo)
       IN \E r \in CopyTree(mfs, create_data_user_package_path(mv.from, u),
                                 create_data_user_package_path(mv.to, u)) :
             /\ mfs' = [mfs EXCEPT ![create_data_user_package_path(mv.to, u)] = r[2]]
             /\ mv' = [mv EXCEPT !.pc = IF r[1] = 0 THEN "restorecon_user" ELSE "fail"]

\* restorecon_app_data(to_uuid, package_name, user, CE | DE, appid, seinfo).
MoveRestoreconUser ==
    /\ mv.pc = "restorecon_user"
    /\ \E r \in restorecon_app_data(mfs, mv.to, Head(mv.todo),
                                    FLAG_CE_STORAGE \cup FLAG_DE_STORAGE) :
          /\ mfs' = r[2]
          /\ mv' = IF r[1] = 0
                   THEN [mv EXCEPT !.pc = "loop", !.todo = Tail(mv.todo)]
                   ELSE [mv EXCEPT !.pc = "fail"]

\* The volume whose directories the fail: label deletes.
RollbackVolumeFrom(m) == m.from

RollbackVolume(m) == m.to

\* The paths the fail: label deletes: the destination app directory and,
\* for every known user, create_data_user_package_path(to_uuid, user, pkg).
RollbackPaths(m) ==
    {create_data_app_package_path(RollbackVolume(m))}
    \cup {create_data_user_package_path(RollbackVolume(m), u) : u \in m.users}

\* fail: "Nuke everything we might have already copied", then return -1.
\* A failed deletion is only logged.
MoveFail ==
    /\ mv.pc = "fail"
    /\ \E how \in [RollbackPaths(mv) -> {"ok", "fail", "partial"}] :
          /\ mfs' = [p \in MovePaths |->
                        IF p \in RollbackPaths(mv)
                        THEN delete_dir_contents_and_dir(mfs[p], how[p])
                        ELSE mfs[p]]
          /\ mv' = [mv EXCEPT !.pc = "done", !.ret = -1,
                      !.rbfail = \E p \in RollbackPaths(mv) :
                                     how[p] # "ok" /\ mfs[p] # "absent"]

MoveStep ==
    \/ MoveCall
    \/ MoveCopyApp
    \/ MoveRestoreconApp
    \/ MoveLoop
    \/ MovePrepareUser
    \/ MoveCreateAppData
    \/ MoveCopyUser
    \/ MoveRestoreconUser
    \/ MoveFail

MoveNext == MoveStep /\ UNCHANGED <<dfs, dx, ch, im, rx, afs, ad, fc, op>>

SpecMove == MoveInit /\ [][MoveNext]_vars

(***************************************************************************)
(* Claims about move_complete_app                                          *)
(***************************************************************************)
MoveReturned(rc) == mv.pc = "done" /\ mv.ret = rc

\* The source tree of the call: the app directory and every per-user
\* package directory (both classes) on the source volume.
MoveSourcePaths(m) ==
    {create_data_app_package_path(m.from)}
    \cup {create_data_user_package_path(m.from, u) : u \in Users}
    \cup {create_data_user_de_package_path(m.from, u) : u \in Users}

\* C1: whenever move_complete_app returns -1 and its rollback deletions
\* succeeded, nothing the call wrote remains on the destination volume:
\* the destination app directory is gone and, for every known user, neither
\* the CE nor the DE destination package directory holds anything that the
\* call created, labelled or copied.
C1_FailureLeavesNoDestination ==
    (MoveReturned(-1) /\ ~mv.rbfail) =>
        /\ mfs[create_data_app_package_path(mv.to)] = "absent"
        /\ \A u \in mv.users :
              /\ mfs[create_data_user_package_path(mv.to, u)] \notin WrittenByCall
              /\ mfs[create_data_user_de_package_path(mv.to, u)] \notin WrittenByCall

\* C2 as stated: in every execution, at every step of the call and on
\* return, the source tree is what it was when the call started.
C2_SourceNeverTouched ==
    mv.pc # "idle" => \A p \in MoveSourcePaths(mv) : mfs[p] = mv.fs0[p]

\* C2 amended: when the destination volume is another volume than the
\* source volume, the source tree is unchanged at every step of the call
\* and on return, successful or failed.
C2_SourceUntouchedOnOtherVolume ==
    (mv.pc # "idle" /\ mv.from # mv.to) =>
        \A p \in MoveSourcePaths(mv) : mfs[p] = mv.fs0[p]

\* A failed move between two volumes whose rollback deleted a destination
\* package directory, while the source app and user data are still there.
C2_Witness ==
    /\ MoveReturned(-1)
    /\ mv.from # mv.to
    /\ mfs[create_data_app_package_path(mv.from)] = "pre"
    /\ \E u \in mv.users :
          /\ mfs[create_data_user_package_path(mv.from, u)] = "pre"
          /\ mv.fs0[create_data_user_package_path(mv.to, u)] = "pre"
          /\ mfs[create_data_user_package_path(mv.to, u)] = "absent"

(***************************************************************************)
(* dexopt: the parent up to fork                                           *)
(***************************************************************************)
DexoptNeeded ==
    {"DEXOPT_DEX2OAT_NEEDED", "DEXOPT_PATCHOAT_NEEDED", "DEXOPT_SELF_PATCHOAT_NEEDED"}

\* open_profile_files_for_user for one user, by how far it gets:
\*   no_profile  the code cache or the current profile cannot be opened
\*   no_ref      the reference profile cannot be opened; the profile fd is
\*               closed again
\*   chown_fail  fchown of the reference profile fails; the profile fd is
\*               closed, the reference fd is not
\*   pair        both fds are returned
\* The result: [added: the pair goes into the lists, open: fds left open].
ProfileOutcomes == {"no_profile", "no_ref", "chown_fail", "pair"}

open_profile_files_for_user(u, outcome) ==
    CASE outcome = "no_profile" -> [added |-> FALSE, open |-> {}]
      [] outcome = "no_ref" -> [added |-> FALSE, open |-> {}]
      [] outcome = "chown_fail" -> [added |-> FALSE, open |-> {ReferenceProfileFd(u)}]
      [] outcome = "pair" ->
            [added |-> TRUE, open |-> {ProfileFd(u), ReferenceProfileFd(u)}]

\* The fds held in profile_files_fd and reference_profile_files_fd.
ProfileListFds(d) ==
    {ProfileFd(u) : u \in d.lists} \cup {ReferenceProfileFd(u) : u \in d.lists}

\* The file dexopt reads, by discriminator: the APK, the .odex beside it,
\* or the prior output.
InputExists(fs, needed) ==
    CASE needed = "DEXOPT_DEX2OAT_NEEDED" -> fs.apk
      [] needed = "DEXOPT_PATCHOAT_NEEDED" -> fs.odex
      [] needed = "DEXOPT_SELF_PATCHOAT_NEEDED" -> fs.out.kind # "absent"

\* st_atime / st_mtime that stat(input_file) reads (zeroed when it fails).
InputStatZeroed(fs, needed) == "t_zero"

InputStat(fs, needed) ==
    CASE ~InputExists(fs, needed) -> "t_zero"
      [] needed = "DEXOPT_DEX2OAT_NEEDED" -> "t_apk"
      [] needed = "DEXOPT_PATCHOAT_NEEDED" -> "t_odex"
      [] needed = "DEXOPT_SELF_PATCHOAT_NEEDED" ->
            fs.out.time

\* A direct `return rc;` of dexopt (no label, nothing closed).
DexReturn(d, rc, how) == [d EXCEPT !.pc = "done", !.ret = rc, !.how = how]

DexFsInit ==
    [out : {NoFile, DirEntry, OldOutFile}, swap : {"absent", "old"},
     apk : BOOLEAN, odex : BOOLEAN, idmap : {NoFile}]

DexCall ==
    /\ dx.pc = "idle" /\ ch.pc = "none"
    /\ \E a \in [use_profiles : BOOLEAN, dexopt_needed : DexoptNeeded,
                 oat_dir : {"null", "valid", "invalid"}, is_public : BOOLEAN,
                 boot_complete : BOOLEAN] :
          dx' = [dx EXCEPT !.pc = "profiles", !.a = a]
    /\ UNCHANGED <<dfs, ch>>

\* if (use_profiles) { open_profile_files(...); if (empty) return 0; }
DexOpenProfilesNoSkip ==
    /\ dx.pc = "profiles"
    /\ IF ~dx.a.use_profiles
       THEN dx' = [dx EXCEPT !.pc = "guard"]
       ELSE \E oc \in [Users -> ProfileOutcomes] :
               LET r == [u \in Users |-> open_profile_files_for_user(u, oc[u])]
               IN dx' = [dx EXCEPT !.lists = {u \in Users : r[u].added},
                                   !.open = UNION {r[u].open : u \in Users},
                                   !.pc = "guard"]
    /\ UNCHANGED <<dfs, ch>>

DexOpenProfiles ==
    /\ dx.pc = "profiles"
    /\ IF ~dx.a.use_profiles
       THEN dx' = [dx EXCEPT !.pc = "guard"]
       ELSE \E oc \in [Users -> ProfileOutcomes] :
               LET r == [u \in Users |-> open_profile_files_for_user(u, oc[u])]
                   d == [dx EXCEPT !.lists = {u \in Users : r[u].added},
                                   !.open = UNION {r[u].open : u \in Users}]
               IN dx' = IF d.lists = {} THEN DexReturn(d, 0, "skip")
                        ELSE [d EXCEPT !.pc = "guard"]
    /\ UNCHANGED <<dfs, ch>>

\* if (strlen(apk_path) >= (PKG_PATH_MAX - 8)) return -1;
DexPathGuard ==
    /\ dx.pc = "guard"
    /\ \E too_long \in BOOLEAN :
          dx' = IF too_long THEN DexReturn(dx, -1, "too_long")
                ELSE [dx EXCEPT !.pc = "out_path"]
    /\ UNCHANGED <<dfs, ch>>

\* Output path derivation: validate_apk_path(oat_dir) and
\* calculate_oat_file_path, or create_cache_path.
DexOutPath ==
    /\ dx.pc = "out_path"
    /\ \E computed \in BOOLEAN :
          dx' = IF dx.a.oat_dir = "invalid" THEN DexReturn(dx, -1, "invalid_oat_dir")
                ELSE IF ~computed THEN DexReturn(dx, -1, "no_out_path")
                ELSE [dx EXCEPT !.pc = "select"]
    /\ UNCHANGED <<dfs, ch>>

\* switch (dexopt_needed): only PATCHOAT computes a path, which may fail.
DexSelectInput ==
    /\ dx.pc = "select"
    /\ \E computed \in BOOLEAN :
          dx' = IF dx.a.dexopt_needed = "DEXOPT_PATCHOAT_NEEDED" /\ ~computed
                THEN DexReturn(dx, -1, "no_odex_path")
                ELSE [dx EXCEPT !.pc = "open_input"]
    /\ UNCHANGED <<dfs, ch>>

\* stat(input_file, &input_stat); input_fd = open(input_file, O_RDONLY, 0).
DexOpenInput ==
    /\ dx.pc = "open_input"
    /\ \E ok \in BOOLEAN :
          dx' = IF ok /\ InputExists(dfs, dx.a.dexopt_needed)
                THEN [dx EXCEPT !.pc = "unlink_out", !.open = @ \cup {InputFd},
                                !.in_time = InputStat(dfs, dx.a.dexopt_needed)]
                ELSE DexReturn([dx EXCEPT !.in_time = InputStat(dfs, dx.a.dexopt_needed)],
                               -1, "no_input")
    /\ UNCHANGED <<dfs, ch>>

\* unlink(path): removes a file; fails (unchecked) on a directory.
UnlinkKeeps(f) == f

Unlink(f) == IF f.kind = "dir" THEN f ELSE NoFile

\* unlink(out_path);
DexUnlinkOut ==
    /\ dx.pc = "unlink_out"
    /\ dfs' = [dfs EXCEPT !.out = Unlink(@)]
    /\ dx' = [dx EXCEPT !.pc = "create_out"]
    /\ UNCHANGED ch

\* out_fd = open(out_path, O_RDWR | O_CREAT | O_EXCL, 0644);
DexCreateOut ==
    /\ dx.pc = "create_out"
    /\ \E ok \in BOOLEAN :
          IF ok /\ dfs.out.kind = "absent"
          THEN /\ dfs' = [dfs EXCEPT !.out = [kind |-> "file", mode |-> "0644",
                                              owner |-> <<"root", "root">>,
                                              time |-> "t_now", by |-> "call"]]
               /\ dx' = [dx EXCEPT !.pc = "fchmod", !.open = @ \cup {OutFd},
                                   !.created = TRUE]
          ELSE /\ dx' = [dx EXCEPT !.pc = "fail"]
               /\ UNCHANGED dfs
    /\ UNCHANGED ch

\* The mode of fchmod(out_fd, S_IRUSR|S_IWUSR|S_IRGRP | (is_public ? S_IROTH : 0)).
OutModeAlwaysPublic(is_public) == "0644"

OutMode(is_public) == IF is_public THEN "0644" ELSE "0640"

DexFchmod ==
    /\ dx.pc = "fchmod"
    /\ \E ok \in BOOLEAN :
          IF ok
          THEN /\ dfs' = [dfs EXCEPT !.out.mode = OutMode(dx.a.is_public)]
               /\ dx' = [dx EXCEPT !.pc = "fchown"]
          ELSE /\ dx' = [dx EXCEPT !.pc = "fail"]
               /\ UNCHANGED dfs
    /\ UNCHANGED ch

\* fchown(out_fd, AID_SYSTEM, uid)
DexFchown ==
    /\ dx.pc = "fchown"
    /\ \E ok \in BOOLEAN :
          IF ok
          THEN /\ dfs' = [dfs EXCEPT !.out.owner = <<"AID_SYSTEM", "uid">>]
               /\ dx' = [dx EXCEPT !.pc = "swap"]
          ELSE /\ dx' = [dx EXCEPT !.pc = "fail"]
               /\ UNCHANGED dfs
    /\ UNCHANGED ch

\* ShouldUseSwapFileForDexopt asking ro.config.low_ram before the property.
ShouldUseSwapFileForDexoptLowRamFirst(always, dflt, swap_prop, low_ram) ==
    IF always THEN TRUE
    ELSE IF low_ram THEN TRUE
    ELSE IF swap_prop # "" THEN swap_prop = "true"
    ELSE dflt

\* ShouldUseSwapFileForDexopt with kAlwaysProvideSwapFile = always,
\* kDefaultProvideSwapFile = dflt, the value of dalvik.vm.dex2oat-swap
\* ("" when unset) and whether ro.config.low_ram is "true".
ShouldUseSwapFileForDexopt(always, dflt, swap_prop, low_ram) ==
    IF always THEN TRUE
    ELSE IF swap_prop # "" THEN swap_prop = "true"
    ELSE IF dflt THEN TRUE
    ELSE IF low_ram THEN TRUE
    ELSE dflt

kAlwaysProvideSwapFile == FALSE

kDefaultProvideSwapFile == TRUE

\* The swap block up to the open: when a swap file is wanted and its path
\* fits, unlink(swap_file_name) and open it O_CREAT | O_EXCL, 0600.
DexSwapCreate ==
    /\ dx.pc = "swap"
    /\ \E swap_prop \in {"", "true", "false"}, low_ram \in BOOLEAN,
          fits \in BOOLEAN, ok \in BOOLEAN :
          IF ShouldUseSwapFileForDexopt(kAlwaysProvideSwapFile, kDefaultProvideSwapFile,
                                        swap_prop, low_ram) /\ fits
          THEN IF ok
               THEN /\ dfs' = [dfs EXCEPT !.swap = "call"]
                    /\ dx' = [dx EXCEPT !.pc = "swap_unlink", !.open = @ \cup {SwapFd}]
               ELSE /\ dfs' = [dfs EXCEPT !.swap = "absent"]
                    /\ dx' = [dx EXCEPT !.pc = "fork"]
          ELSE /\ dx' = [dx EXCEPT !.pc = "fork"]
               /\ UNCHANGED dfs
    /\ UNCHANGED ch

\* "Immediately unlink. We don't really want to hit flash."
DexSwapUnlinkSkipped ==
    /\ dx.pc = "swap_unlink"
    /\ dx' = [dx EXCEPT !.pc = "fork"]
    /\ UNCHANGED <<dfs, ch>>

DexSwapUnlink ==
    /\ dx.pc = "swap_unlink"
    /\ dfs' = [dfs EXCEPT !.swap = "absent"]
    /\ dx' = [dx EXCEPT !.pc = "fork"]
    /\ UNCHANGED ch

\* pid = fork(): the child starts as a copy of the parent (root, all
\* capabilities); the parent goes to wait_child(pid).
DexFork ==
    /\ dx.pc = "fork"
    /\ dx' = [dx EXCEPT !.pc = "wait", !.forked = TRUE]
    /\ ch' = [NoChild EXCEPT !.pc = "setgid"]
    /\ UNCHANGED dfs

(***************************************************************************)
(* dexopt: the child between fork and exec                                 *)
(***************************************************************************)
\* The child's step after `step`; SetDex2OatAndPatchOatScheduling acts only
\* when boot_complete is set.
DexChildNextLockFirst(step, boot_complete) ==
    CASE step = "setgid" -> "flock"
      [] step = "flock" -> "setuid"
      [] step = "setuid" -> "capset"
      [] step = "capset" -> IF boot_complete THEN "set_sched_policy" ELSE "exec"
      [] step = "set_sched_policy" -> "setpriority"
      [] step = "setpriority" -> "exec"
      [] step = "exec" -> "running"

DexChildNext(step, boot_complete) ==
    CASE step = "setgid" -> "setuid"
      [] step = "setuid" -> "capset"
      [] step = "capset" -> IF boot_complete THEN "set_sched_policy" ELSE "flock"
      [] step = "set_sched_policy" -> "setpriority"
      [] step = "setpriority" -> "flock"
      [] step = "flock" -> "exec"
      [] step = "exec" -> "running"

\* The argument of exit() when `step` fails in the dexopt child.
DexExitCode(step) ==
    CASE step = "setgid" -> 64
      [] step = "setuid" -> 65
      [] step = "capset" -> 66
      [] step = "set_sched_policy" -> 70
      [] step = "setpriority" -> 71
      [] step = "flock" -> 67
      [] step = "exec" -> 68

ChildFails(c, step, code) ==
    [c EXCEPT !.pc = "exited", !.exit = code, !.failed = step, !.steps = Append(@, step)]

ChildDoes(c, step, next) == [c EXCEPT !.pc = next, !.steps = Append(@, step)]

DexChildActive == dx.pc = "wait"

\* if (setgid(uid) != 0) exit(64);
DexChildSetgid ==
    /\ DexChildActive /\ ch.pc = "setgid"
    /\ \E ok \in BOOLEAN :
          ch' = IF ok
                THEN [ChildDoes(ch, "setgid", DexChildNext("setgid", dx.a.boot_complete))
                         EXCEPT !.gid = "app"]
                ELSE ChildFails(ch, "setgid", DexExitCode("setgid"))
    /\ UNCHANGED <<dfs, dx>>

\* if (setuid(uid) != 0) exit(65);
DexChildSetuid ==
    /\ DexChildActive /\ ch.pc = "setuid"
    /\ \E ok \in BOOLEAN :
          ch' = IF ok
                THEN [ChildDoes(ch, "setuid", DexChildNext("setuid", dx.a.boot_complete))
                         EXCEPT !.uid = "app"]
                ELSE ChildFails(ch, "setuid", DexExitCode("setuid"))
    /\ UNCHANGED <<dfs, dx>>

\* capset(&capheader, &capdata[0]) with zeroed data; failure: exit(66).
DexChildCapset ==
    /\ DexChildActive /\ ch.pc = "capset"
    /\ \E ok \in BOOLEAN :
          ch' = IF ok
                THEN [ChildDoes(ch, "capset", DexChildNext("capset", dx.a.boot_complete))
                         EXCEPT !.caps = FALSE]
                ELSE ChildFails(ch, "capset", DexExitCode("capset"))
    /\ UNCHANGED <<dfs, dx>>

\* set_sched_policy(0, SP_BACKGROUND); failure: exit(70).
DexChildSchedPolicy ==
    /\ DexChildActive /\ ch.pc = "set_sched_policy"
    /\ \E ok \in BOOLEAN :
          ch' = IF ok
                THEN ChildDoes(ch, "set_sched_policy",
                               DexChildNext("set_sched_policy", dx.a.boot_complete))
                ELSE ChildFails(ch, "set_sched_policy", DexExitCode("set_sched_policy"))
    /\ UNCHANGED <<dfs, dx>>

\* setpriority(PRIO_PROCESS, 0, ANDROID_PRIORITY_BACKGROUND); failure: exit(71).
DexChildSetpriority ==
    /\ DexChildActive /\ ch.pc = "setpriority"
    /\ \E ok \in BOOLEAN :
          ch' = IF ok
                THEN [ChildDoes(ch, "setpriority",
                                DexChildNext("setpriority", dx.a.boot_complete))
                         EXCEPT !.bg = TRUE]
                ELSE ChildFails(ch, "setpriority", DexExitCode("setpriority"))
    /\ UNCHANGED <<dfs, dx>>

\* if (flock(out_fd, LOCK_EX | LOCK_NB) != 0) exit(67);
DexChildFlock ==
    /\ DexChildActive /\ ch.pc = "flock"
    /\ \E ok \in BOOLEAN :
          ch' = IF ok
                THEN [ChildDoes(ch, "flock", DexChildNext("flock", dx.a.boot_complete))
                         EXCEPT !.locked = TRUE]
                ELSE ChildFails(ch, "flock", DexExitCode("flock"))
    /\ UNCHANGED <<dfs, dx>>

\* run_patchoat / run_dex2oat: execv; when it returns (or the instruction
\* set is too long and nothing is exec'd) the child ends with exit(68).
DexChildExec ==
    /\ DexChildActive /\ ch.pc = "exec"
    /\ \E ok \in BOOLEAN :
          ch' = IF ok
                THEN ChildDoes(ch, "exec", DexChildNext("exec", dx.a.boot_complete))
                ELSE ChildFails(ch, "exec", DexExitCode("exec"))
    /\ UNCHANGED <<dfs, dx>>

\* The exec'd compiler writes the output through the inherited fd and
\* ends with status 0, or fails with a status of its own.
DexChildRun ==
    /\ DexChildActive /\ ch.pc = "running"
    /\ \E status \in {0, 1} :
          /\ ch' = [ch EXCEPT !.pc = "exited", !.exit = status]
          /\ dfs' = [dfs EXCEPT !.out.time = "t_now"]
    /\ UNCHANGED dx

(***************************************************************************)
(* dexopt: the parent after fork                                           *)
(***************************************************************************)
\* Where the parent goes with the wait status res.
DexAfterWaitExitedOnly(res) == IF res \in {0, 1} THEN "finish" ELSE "fail"

DexAfterWait(res) == IF res = 0 THEN "finish" ELSE "fail"

\* res = wait_child(pid); if (res == 0) ... else goto fail;  wait_child
\* blocks until the child has ended.
DexWaitNoHang ==
    /\ dx.pc = "wait"
    /\ dx' = [dx EXCEPT !.pc = DexAfterWait(ch.exit), !.res = ch.exit]
    /\ UNCHANGED <<dfs, ch>>

DexWait ==
    /\ dx.pc = "wait" /\ ch.pc = "exited"
    /\ dx' = [dx EXCEPT !.pc = DexAfterWait(ch.exit), !.res = ch.exit]
    /\ UNCHANGED <<dfs, ch>>

\* The fds the success arm closes.
DexSuccessCloses(d) ==
    {OutFd, InputFd} \cup {SwapFd}
    \cup (IF d.a.use_profiles THEN ProfileListFds(d) ELSE {})

\* utime(out_path, &ut) with the input's times, the closes, return 0.
DexFinish ==
    /\ dx.pc = "finish"
    /\ dfs' = [dfs EXCEPT !.out = IF @.kind = "file" THEN [@ EXCEPT !.time = dx.in_time]
                                  ELSE @]
    /\ dx' = DexReturn([dx EXCEPT !.open = @ \ DexSuccessCloses(dx)], 0, "ok")
    /\ UNCHANGED ch

\* Whether the fail: label unlinks the output: if (out_fd >= 0).
DexFailUnlinksNever(d) == FALSE

DexFailUnlinks(d) == OutFd \in d.open

\* The fds the fail: label closes: out_fd and input_fd when open, and the
\* profile lists; swap_fd is not among them.
DexFailCloses(d) ==
    {OutFd, InputFd} \cup (IF d.a.use_profiles THEN ProfileListFds(d) ELSE {})

\* fail: close(out_fd); unlink(out_path); close(input_fd); close_all_fds; return -1.
DexFail ==
    /\ dx.pc = "fail"
    /\ dfs' = [dfs EXCEPT !.out = IF DexFailUnlinks(dx) THEN Unlink(@) ELSE @]
    /\ dx' = DexReturn([dx EXCEPT !.open = @ \ DexFailCloses(dx)], -1, "fail")
    /\ UNCHANGED ch

DexInit ==
    /\ mfs = [p \in MovePaths |-> "absent"]
    /\ mv = MoveIdle
    /\ dfs \in DexFsInit
    /\ dx = DexIdle
    /\ ch = NoChild
    /\ im = IdmapIdle
    /\ rx = RaceIdle
    /\ afs = AppFsNone
    /\ ad = AppIdle
    /\ fc = CacheIdle
    /\ op = NoCall

DexStep ==
    \/ DexCall
    \/ DexOpenProfiles
    \/ DexPathGuard
    \/ DexOutPath
    \/ DexSelectInput
    \/ DexOpenInput
    \/ DexUnlinkOut
    \/ DexCreateOut
    \/ DexFchmod
    \/ DexFchown
    \/ DexSwapCreate
    \/ DexSwapUnlink
    \/ DexFork
    \/ DexChildSetgid
    \/ DexChildSetuid
    \/ DexChildCapset
    \/ DexChildSchedPolicy
    \/ DexChildSetpriority
    \/ DexChildFlock
    \/ DexChildExec
    \/ DexChildRun
    \/ DexWait
    \/ DexFinish
    \/ DexFail

DexNext == DexStep /\ UNCHANGED <<mfs, mv, im, rx, afs, ad, fc, op>>

SpecDexopt == DexInit /\ [][DexNext]_vars

(***************************************************************************)
(* Claims about dexopt                                                     *)
(***************************************************************************)
DexReturned(rc) == dx.pc = "done" /\ dx.ret = rc

\* C3 as stated: whenever dexopt returns -1, at whatever point it failed
\* and whatever was on the filesystem before, the output path does not
\* exist and no file <out_path>.swap exists.
C3_FailureLeavesNoOutputNoSwap ==
    DexReturned(-1) => dfs.out.kind = "absent" /\ dfs.swap = "absent"

\* C3 amended: whenever dexopt returns -1 after it created the output file
\* (fchmod or fchown failed, or the child's wait status was non-zero), the
\* output path does not exist on return; and on every failure return no
\* swap file created by the call is left at <out_path>.swap.
C3_FailureRemovesWhatItCreated ==
    DexReturned(-1) =>
        /\ dx.created => dfs.out.kind = "absent"
        /\ dfs.swap # "call"

\* A failure after fork, with a swap fd acquired, of a call that found an
\* older swap file: output and swap path are both gone.
C3_Witness ==
    /\ DexReturned(-1) /\ dx.created /\ dx.forked
    /\ SwapFd \in dx.open
    /\ dfs.out.kind = "absent" /\ dfs.swap = "absent"

\* The atime/mtime of the file dexopt takes as input for each discriminator.
InputFileTime(needed) ==
    CASE needed = "DEXOPT_DEX2OAT_NEEDED" -> "t_apk"
      [] needed = "DEXOPT_PATCHOAT_NEEDED" -> "t_odex"
      [] needed = "DEXOPT_SELF_PATCHOAT_NEEDED" -> "t_old"

OutputAsSpecified ==
    /\ dfs.out.kind = "file"
    /\ dfs.out.by = "call"
    /\ dfs.out.mode = (IF dx.a.is_public THEN "0644" ELSE "0640")
    /\ dfs.out.owner = <<"AID_SYSTEM", "uid">>
    /\ dfs.out.time = InputFileTime(dx.a.dexopt_needed)

\* C4 as stated: whenever dexopt returns 0, for every combination of its
\* inputs (use_profiles included), the output file exists with mode 0644
\* (PUBLIC) or 0640, owner (AID_SYSTEM, uid) and the input's atime/mtime.
C4_SuccessMeansOutput == DexReturned(0) => OutputAsSpecified

\* C4 amended: whenever dexopt returns 0 after running the compiler, that
\* is on every return of 0 other than the early one taken when use_profiles
\* is set and no profile pair was obtained, the output file exists with
\* mode 0644 (PUBLIC) or 0640, owner (AID_SYSTEM, uid) and the input's
\* atime/mtime.
C4_CompiledSuccessMeansOutput ==
    (DexReturned(0) /\ dx.how # "skip") => OutputAsSpecified

\* A successful profile-guided in-place patch of a non-public output.
C4_Witness ==
    /\ DexReturned(0) /\ dx.forked /\ ch.exit = 0
    /\ dx.a.dexopt_needed = "DEXOPT_SELF_PATCHOAT_NEEDED"
    /\ dx.a.use_profiles /\ ~dx.a.is_public
    /\ dfs.out.mode = "0640"

\* C5: every profile fd and reference-profile fd dexopt opened (at least
\* one pair obtained) is closed when dexopt returns, on every return path.
C5_ProfileFdsClosedOnReturn ==
    (dx.pc = "done" /\ dx.lists # {}) =>
        \A u \in Users :
            ProfileFd(u) \notin dx.open /\ ReferenceProfileFd(u) \notin dx.open

\* C6: when dexopt returns, whatever the child's status was, no swap fd is
\* open in the parent.
C6_SwapFdClosedOnReturn == dx.pc = "done" => SwapFd \notin dx.open

\* The order of the child's steps that C7 states.
C7Order(boot_complete) ==
    IF boot_complete
    THEN <<"setgid", "setuid", "capset", "set_sched_policy", "setpriority", "flock", "exec">>
    ELSE <<"setgid", "setuid", "capset", "flock", "exec">>

\* The exit codes that C7 states.
C7Code(step) ==
    CASE step = "setgid" -> 64
      [] step = "setuid" -> 65
      [] step = "capset" -> 66
      [] step = "set_sched_policy" -> 70
      [] step = "setpriority" -> 71
      [] step = "flock" -> 67
      [] step = "exec" -> 68

IsPrefix(s, t) == Len(s) <= Len(t) /\ \A i \in 1..Len(s) : s[i] = t[i]

ChildExeced(c) == c.pc = "running" \/ (c.pc = "exited" /\ c.failed = "none")

\* C7: the dexopt child runs setgid, setuid, capset, (BOOTCOMPLETE: the two
\* scheduling calls), flock, exec in this order; the compiler runs only
\* with gid = uid = app uid, no capability and the lock held; a failing
\* step ends the child at once with the code of that step (64, 65, 66, 70,
\* 71, 67, 68), which is not zero.
C7_ChildDiscipline ==
    (ch.pc # "none" /\ dx.pc # "idle") =>
        /\ IsPrefix(ch.steps, C7Order(dx.a.boot_complete))
        /\ ChildExeced(ch) =>
              ch.gid = "app" /\ ch.uid = "app" /\ ~ch.caps /\ ch.locked
        /\ ch.failed # "none" =>
              /\ ch.pc = "exited"
              /\ ch.steps[Len(ch.steps)] = ch.failed
              /\ ch.exit = C7Code(ch.failed)
              /\ ch.exit # 0

\* The compiler running after BOOTCOMPLETE lowered the child's priority.
C7_Witness ==
    /\ dx.pc = "wait" /\ ch.pc = "running" /\ dx.a.boot_complete /\ ch.bg
    /\ Len(ch.steps) = Len(C7Order(TRUE))

\* C9: after the wait, a non-zero status makes dexopt return -1 with the
\* output path unlinked and the output and input fds closed; status zero
\* makes it return 0 with the output it created still in place.
C9_WaitStatusDecides ==
    (dx.pc = "done" /\ dx.forked) =>
        /\ ch.exit # 0 =>
              /\ dx.ret = -1
              /\ dfs.out.kind = "absent"
              /\ OutFd \notin dx.open /\ InputFd \notin dx.open
        /\ ch.exit = 0 =>
              /\ dx.ret = 0
              /\ dfs.out.kind = "file" /\ dfs.out.by = "call"

\* The child lost the flock and the parent rolled the output back.
C9_Witness ==
    /\ DexReturned(-1) /\ dx.forked /\ ch.failed = "flock" /\ ch.exit = 67
    /\ dfs.out.kind = "absent"

(***************************************************************************)
(* idmap                                                                   *)
(***************************************************************************)
\* A direct jump to fail: or a return of idmap.
IdmapReturn(m, rc) == [m EXCEPT !.pc = "done", !.ret = rc]

\* flatten_path(IDMAP_PREFIX, IDMAP_SUFFIX, overlay_apk, ...) == -1: goto fail
\* with idmap_fd = -1, which closes and unlinks nothing.
IdmapCall ==
    /\ im.pc = "idle" /\ ch.pc = "none"
    /\ \E flattened \in BOOLEAN :
          im' = IF flattened THEN [im EXCEPT !.pc = "unlink"] ELSE IdmapReturn(im, -1)
    /\ UNCHANGED <<dfs, ch>>

\* unlink(idmap_path);
IdmapUnlink ==
    /\ im.pc = "unlink"
    /\ dfs' = [dfs EXCEPT !.idmap = Unlink(@)]
    /\ im' = [im EXCEPT !.pc = "create"]
    /\ UNCHANGED ch

\* idmap_fd = open(idmap_path, O_RDWR | O_CREAT | O_EXCL, 0644);
IdmapCreate ==
    /\ im.pc = "create"
    /\ \E ok \in BOOLEAN :
          IF ok /\ dfs.idmap.kind = "absent"
          THEN /\ dfs' = [dfs EXCEPT !.idmap =
                             [kind |-> "file", mode |-> "0644", owner |-> <<"root", "root">>,
                              time |-> "t_now", by |-> "call"]]
               /\ im' = [im EXCEPT !.pc = "fchown", !.open = @ \cup {IdmapFd},
                                   !.created = TRUE]
          ELSE /\ im' = [im EXCEPT !.pc = "fail"]
               /\ UNCHANGED dfs
    /\ UNCHANGED ch

\* if (fchown(idmap_fd, AID_SYSTEM, uid) < 0) goto fail;
IdmapFchown ==
    /\ im.pc = "fchown"
    /\ \E ok \in BOOLEAN :
          IF ok
          THEN /\ dfs' = [dfs EXCEPT !.idmap.owner = <<"AID_SYSTEM", "uid">>]
               /\ im' = [im EXCEPT !.pc = "fchmod"]
          ELSE /\ im' = [im EXCEPT !.pc = "fail"]
               /\ UNCHANGED dfs
    /\ UNCHANGED ch

\* if (fchmod(idmap_fd, S_IRUSR | S_IWUSR | S_IRGRP | S_IROTH) < 0) goto fail;
IdmapFchmod ==
    /\ im.pc = "fchmod"
    /\ \E ok \in BOOLEAN :
          IF ok
          THEN /\ dfs' = [dfs EXCEPT !.idmap.mode = "0644"]
               /\ im' = [im EXCEPT !.pc = "fork"]
          ELSE /\ im' = [im EXCEPT !.pc = "fail"]
               /\ UNCHANGED dfs
    /\ UNCHANGED ch

\* pid = fork();
IdmapFork ==
    /\ im.pc = "fork"
    /\ im' = [im EXCEPT !.pc = "wait", !.forked = TRUE]
    /\ ch' = [NoChild EXCEPT !.pc = "setgid"]
    /\ UNCHANGED dfs

\* The idmap child's step after `step`: setgid, setuid, flock, run_idmap.
IdmapChildNext(step) ==
    CASE step = "setgid" -> "setuid"
      [] step = "setuid" -> "flock"
      [] step = "flock" -> "exec"
      [] step = "exec" -> "running"

\* The argument of exit() when `step` fails in the idmap child.
IdmapExitCode(step) ==
    CASE step = "setgid" -> 1
      [] step = "setuid" -> 1
      [] step = "flock" -> 1
      [] step = "exec" -> 1

IdmapChildActive == im.pc = "wait"

\* if (setgid(uid) != 0) exit(1);
IdmapChildSetgid ==
    /\ IdmapChildActive /\ ch.pc = "setgid"
    /\ \E ok \in BOOLEAN :
          ch' = IF ok
                THEN [ChildDoes(ch, "setgid", IdmapChildNext("setgid")) EXCEPT !.gid = "app"]
                ELSE ChildFails(ch, "setgid", IdmapExitCode("setgid"))
    /\ UNCHANGED <<dfs, im>>

\* if (setuid(uid) != 0) exit(1);
IdmapChildSetuid ==
    /\ IdmapChildActive /\ ch.pc = "setuid"
    /\ \E ok \in BOOLEAN :
          ch' = IF ok
                THEN [ChildDoes(ch, "setuid", IdmapChildNext("setuid")) EXCEPT !.uid = "app"]
                ELSE ChildFails(ch, "setuid", IdmapExitCode("setuid"))
    /\ UNCHANGED <<dfs, im>>

\* if (flock(idmap_fd, LOCK_EX | LOCK_NB) != 0) exit(1);
IdmapChildFlock ==
    /\ IdmapChildActive /\ ch.pc = "flock"
    /\ \E ok \in BOOLEAN :
          ch' = IF ok
                THEN [ChildDoes(ch, "flock", IdmapChildNext("flock")) EXCEPT !.locked = TRUE]
                ELSE ChildFails(ch, "flock", IdmapExitCode("flock"))
    /\ UNCHANGED <<dfs, im>>

\* run_idmap(target_apk, overlay_apk, idmap_fd); exit(1) if the exec failed.
IdmapChildExec ==
    /\ IdmapChildActive /\ ch.pc = "exec"
    /\ \E ok \in BOOLEAN :
          ch' = IF ok
                THEN ChildDoes(ch, "exec", IdmapChildNext("exec"))
                ELSE ChildFails(ch, "exec", IdmapExitCode("exec"))
    /\ UNCHANGED <<dfs, im>>

\* The exec'd idmap binary writes through the inherited fd and ends.
IdmapChildRun ==
    /\ IdmapChildActive /\ ch.pc = "running"
    /\ \E status \in {0, 1} :
          /\ ch' = [ch EXCEPT !.pc = "exited", !.exit = status]
          /\ dfs' = [dfs EXCEPT !.idmap.time = "t_now"]
    /\ UNCHANGED im

\* int status = wait_child(pid); if (status != 0) goto fail;
IdmapWait ==
    /\ im.pc = "wait" /\ ch.pc = "exited"
    /\ im' = [im EXCEPT !.pc = IF ch.exit # 0 THEN "fail" ELSE "finish", !.res = ch.exit]
    /\ UNCHANGED <<dfs, ch>>

\* close(idmap_fd); return 0;
IdmapFinish ==
    /\ im.pc = "finish"
    /\ im' = IdmapReturn([im EXCEPT !.open = @ \ {IdmapFd}], 0)
    /\ UNCHANGED <<dfs, ch>>

\* fail: if (idmap_fd >= 0) { close(idmap_fd); unlink(idmap_path); } return -1;
IdmapFail ==
    /\ im.pc = "fail"
    /\ dfs' = [dfs EXCEPT !.idmap = IF IdmapFd \in im.open THEN Unlink(@) ELSE @]
    /\ im' = IdmapReturn([im EXCEPT !.open = @ \ {IdmapFd}], -1)
    /\ UNCHANGED ch

IdmapStep ==
    \/ IdmapCall
    \/ IdmapUnlink
    \/ IdmapCreate
    \/ IdmapFchown
    \/ IdmapFchmod
    \/ IdmapFork
    \/ IdmapChildSetgid
    \/ IdmapChildSetuid
    \/ IdmapChildFlock
    \/ IdmapChildExec
    \/ IdmapChildRun
    \/ IdmapWait
    \/ IdmapFinish
    \/ IdmapFail

(***************************************************************************)
(* The daemon serving one command that forks a child: dexopt or idmap      *)
(***************************************************************************)
ChildrenFsInit ==
    [out : {NoFile, DirEntry, OldOutFile}, swap : {"absent", "old"},
     apk : BOOLEAN, odex : BOOLEAN, idmap : {NoFile, DirEntry, OldOutFile}]

ChildrenInit ==
    /\ mfs = [p \in MovePaths |-> "absent"]
    /\ mv = MoveIdle
    /\ dfs \in ChildrenFsInit
    /\ dx = DexIdle
    /\ ch = NoChild
    /\ im = IdmapIdle
    /\ rx = RaceIdle
    /\ afs = AppFsNone
    /\ ad = AppIdle
    /\ fc = CacheIdle
    /\ op = NoCall

\* The daemon handles one command at a time.
ChildrenNext ==
    \/ DexStep /\ im.pc = "idle" /\ UNCHANGED <<mfs, mv, im, rx, afs, ad, fc, op>>
    \/ IdmapStep /\ dx.pc = "idle" /\ UNCHANGED <<mfs, mv, dx, rx, afs, ad, fc, op>>

SpecChildren == ChildrenInit /\ [][ChildrenNext]_vars

\* The exit code of `step` in the child of the command being served.
ChildExitCode(step) ==
    IF im.pc # "idle" THEN IdmapExitCode(step) ELSE DexExitCode(step)

\* C8: every forked child (dexopt's and idmap's) reaches exec only after
\* setgid then setuid to the app uid and with all capability sets zeroed, and
\* a failing step of setgid, setuid, capset ends the child with a code that
\* is the code of no other step of that sequence.
C8_EveryChildDropsPrivileges ==
    ch.pc # "none" =>
        /\ ChildExeced(ch) =>
              /\ ch.gid = "app" /\ ch.uid = "app" /\ ~ch.caps
              /\ IsPrefix(<<"setgid", "setuid">>, ch.steps)
        /\ ch.failed \in {"setgid", "setuid", "capset"} =>
              \A s \in {"setgid", "setuid", "capset"} \ {ch.failed} :
                  ChildExitCode(s) # ch.exit

(***************************************************************************)
(* Two dexopt invocations for the same output path, in two processes       *)
(***************************************************************************)
\* Process i after closing out_fd: the lock taken through that open file
\* description goes away with its last descriptor.
RaceClose(r, i) ==
    [r EXCEPT !.p[i].fd = FALSE, !.locked[i] = IF r.p[i].fd THEN FALSE ELSE @]

RaceCall(i) ==
    /\ rx.p[i].pc = "idle"
    /\ rx' = [rx EXCEPT !.p[i].pc = "unlink"]

\* unlink(out_path): the name goes; an inode still open elsewhere lives on.
RaceUnlink(i) ==
    /\ rx.p[i].pc = "unlink"
    /\ rx' = [rx EXCEPT !.path = NoInode, !.p[i].pc = "create"]

\* out_fd = open(out_path, O_RDWR | O_CREAT | O_EXCL, 0644): a new inode, or
\* EEXIST when the name is there again (or another error): goto fail.
RaceCreate(i) ==
    /\ rx.p[i].pc = "create"
    /\ \E ok \in BOOLEAN :
          rx' = IF ok /\ rx.path = NoInode
                THEN [rx EXCEPT !.path = Inode(i), !.p[i].fd = TRUE, !.p[i].pc = "fork"]
                ELSE [rx EXCEPT !.p[i].pc = "fail"]

\* pid = fork(): the child inherits out_fd.
RaceFork(i) ==
    /\ rx.p[i].pc = "fork"
    /\ rx' = [rx EXCEPT !.p[i].pc = "wait", !.p[i].cpc = "flock"]

\* flock(out_fd, LOCK_EX | LOCK_NB) in the child, on the inode its parent
\* created: fails when that inode is locked through another open file
\* description (or on another error): exit(67).
RaceChildFlock(i) ==
    /\ rx.p[i].pc = "wait" /\ rx.p[i].cpc = "flock"
    /\ \E ok \in BOOLEAN :
          rx' = IF ok /\ ~rx.locked[i]
                THEN [rx EXCEPT !.locked[i] = TRUE, !.p[i].cpc = "exec"]
                ELSE [rx EXCEPT !.p[i].cpc = "exited", !.p[i].exit = 67]

\* execv of the compiler, or exit(68).
RaceChildExec(i) ==
    /\ rx.p[i].pc = "wait" /\ rx.p[i].cpc = "exec"
    /\ \E ok \in BOOLEAN :
          rx' = IF ok
                THEN [rx EXCEPT !.p[i].cpc = "running"]
                ELSE [rx EXCEPT !.p[i].cpc = "exited", !.p[i].exit = 68]

\* The compiler ends.
RaceChildRun(i) ==
    /\ rx.p[i].pc = "wait" /\ rx.p[i].cpc = "running"
    /\ \E status \in {0, 1} :
          rx' = [rx EXCEPT !.p[i].cpc = "exited", !.p[i].exit = status]

\* res = wait_child(pid); if (res == 0) ... else goto fail;
RaceWait(i) ==
    /\ rx.p[i].pc = "wait" /\ rx.p[i].cpc = "exited"
    /\ rx' = [rx EXCEPT !.p[i].pc = DexAfterWait(rx.p[i].exit)]

\* close(out_fd); ... return 0;
RaceFinish(i) ==
    /\ rx.p[i].pc = "finish"
    /\ rx' = [RaceClose(rx, i) EXCEPT !.p[i].pc = "done", !.p[i].ret = 0]

\* fail: if (out_fd >= 0) { close(out_fd); unlink(out_path); } return -1;
RaceFail(i) ==
    /\ rx.p[i].pc = "fail"
    /\ rx' = [RaceClose(rx, i) EXCEPT !.path = IF rx.p[i].fd THEN NoInode ELSE @,
                                      !.p[i].pc = "done", !.p[i].ret = -1]

RaceInit ==
    /\ mfs = [p \in MovePaths |-> "absent"]
    /\ mv = MoveIdle
    /\ dfs = DexFsNone
    /\ dx = DexIdle
    /\ ch = NoChild
    /\ im = IdmapIdle
    /\ rx \in {[RaceIdle EXCEPT !.path = f] : f \in {NoInode, OldInode}}
    /\ afs = AppFsNone
    /\ ad = AppIdle
    /\ fc = CacheIdle
    /\ op = NoCall

RaceStep ==
    \E i \in Procs :
        \/ RaceCall(i)
        \/ RaceUnlink(i)
        \/ RaceCreate(i)
        \/ RaceFork(i)
        \/ RaceChildFlock(i)
        \/ RaceChildExec(i)
        \/ RaceChildRun(i)
        \/ RaceWait(i)
        \/ RaceFinish(i)
        \/ RaceFail(i)

RaceNext == RaceStep /\ UNCHANGED <<mfs, mv, dfs, dx, ch, im, afs, ad, fc, op>>

SpecRace == RaceInit /\ [][RaceNext]_vars

\* The processes whose child holds the lock and is at or past exec.
RaceCompiling == {i \in Procs : rx.p[i].cpc \in {"exec", "running"}}

\* C10: of two dexopt invocations for one output path, in any interleaving,
\* at most one has a child that passed flock and runs the compiler at any
\* time.
C10_AtMostOneCompiles == Cardinality(RaceCompiling) <= 1

(***************************************************************************)
(* The app-data commands: create, clear, destroy, restorecon, delete_user, *)
(* create_oat_dir.  Each is served from call to return in one step; the    *)
(* log keeps the helper calls it made.                                     *)
(***************************************************************************)
\* One outcome of a command or of a part of it.
AppOutcome(rc, fs, log) == [rc |-> rc, fs |-> fs, log |-> log]

\* res |= rc, for results that are 0 or negative.
OrResultLast(res, rc) == rc

OrResult(res, rc) == IF res = 0 /\ rc = 0 THEN 0 ELSE -1

\* fs_prepare_dir_strict(path, 0751, uid, uid): the outcomes <<rc, dir'>>.
\* A missing directory is made (mkdir, chmod, chown, each may fail and leave
\* what was done); an existing one is accepted only with mode and owner as
\* asked, and is never changed.
PrepareDirStrict(d, parent) ==
    LET made(mode, owner) == [NoDir EXCEPT !.kind = "dir", !.mode = mode,
                                           !.owner = owner, !.label = "default"]
    IN IF d.kind = "absent"
       THEN IF parent # "present" THEN {<<-1, d>>}
            ELSE {<<-1, d>>, <<-1, made("umask", "root")>>, <<-1, made("0751", "root")>>,
                  <<0, made("0751", "uid")>>}
       ELSE IF d.mode = "0751" /\ d.owner = "uid" THEN {<<0, d>>} ELSE {<<-1, d>>}

\* One storage class of create_app_data: prepare, then setfilecon, each with
\* a return -1 on failure (the first variant ignores what setfilecon says).
CreateClassUnlabeled(fs, cls) ==
    UNION {
        IF p[1] # 0
        THEN {AppOutcome(-1, [fs EXCEPT ![cls] = p[2]], << <<"prepare", cls, -1>> >>)}
        ELSE {AppOutcome(0, [fs EXCEPT ![cls] = p[2]],
                         << <<"prepare", cls, 0>>, <<"setfilecon", cls, -1>> >>),
              AppOutcome(0, [fs EXCEPT ![cls] = [p[2] EXCEPT !.label = "app"]],
                         << <<"prepare", cls, 0>>, <<"setfilecon", cls, 0>> >>)}
        : p \in PrepareDirStrict(fs[cls], IF cls = "ce" THEN fs.user ELSE fs.user_de)}

CreateClass(fs, cls) ==
    UNION {
        IF p[1] # 0
        THEN {AppOutcome(-1, [fs EXCEPT ![cls] = p[2]], << <<"prepare", cls, -1>> >>)}
        ELSE {AppOutcome(-1, [fs EXCEPT ![cls] = p[2]],
                         << <<"prepare", cls, 0>>, <<"setfilecon", cls, -1>> >>),
              AppOutcome(0, [fs EXCEPT ![cls] = [p[2] EXCEPT !.label = "app"]],
                         << <<"prepare", cls, 0>>, <<"setfilecon", cls, 0>> >>)}
        : p \in PrepareDirStrict(fs[cls], IF cls = "ce" THEN fs.user ELSE fs.user_de)}

\* The command returns: the daemon's state after it.
AppDone(cmd, args, o) ==
    /\ afs' = o.fs
    /\ ad' = [args EXCEPT !.pc = "done", !.cmd = cmd, !.ret = o.rc, !.fs0 = afs,
                          !.log = o.log]

\* create_app_data(uuid, pkgname, userid, flags, appid, seinfo)
CreateAppData ==
    /\ ad.pc = "idle"
    /\ \E flags \in SUBSET (FLAG_CE_STORAGE \cup FLAG_DE_STORAGE) :
          LET ce == IF FLAG_CE_STORAGE \subseteq flags THEN CreateClass(afs, "ce")
                    ELSE {AppOutcome(0, afs, <<>>)}
              all == UNION {
                        IF c.rc # 0 \/ ~(FLAG_DE_STORAGE \subseteq flags) THEN {c}
                        ELSE {AppOutcome(e.rc, e.fs, c.log \o e.log) :
                                 e \in CreateClass(c.fs, "de")}
                        : c \in ce}
          IN \E o \in all : AppDone("create_app_data", [ad EXCEPT !.flags = flags], o)

\* How a recursive delete ends: all removed ("ok"), nothing removed
\* ("fail"), or stopped half way ("partial": the loose files are gone, a
\* subdirectory is not).
\* delete_dir_contents(path) on the package directory d, path being d itself
\* (only = "all") or its cache / code_cache subdirectory: <<rc, d'>>.  The
\* directory named by path stays.
delete_dir_contents_with_top(d, only, how) ==
    IF how = "fail" THEN <<-1, d>>
    ELSE IF how = "partial" THEN <<-1, IF only = "all" THEN [d EXCEPT !.files = FALSE] ELSE d>>
    ELSE IF only = "all" THEN <<0, NoDir>>
    ELSE <<0, [d EXCEPT ![only] = "absent"]>>

delete_dir_contents(d, only, how) ==
    IF how = "fail" THEN <<-1, d>>
    ELSE IF how = "partial" THEN <<-1, IF only = "all" THEN [d EXCEPT !.files = FALSE] ELSE d>>
    ELSE IF only = "all"
         THEN <<0, [d EXCEPT !.cache = "absent", !.code_cache = "absent", !.files = FALSE]>>
    ELSE <<0, [d EXCEPT ![only] = "empty"]>>

\* One storage class of clear_app_data: access(path, F_OK), then the delete.
ClearClass(fs, cls, only) ==
    IF ~(fs[cls].kind = "dir" /\ (only = "all" \/ fs[cls][only] # "absent"))
    THEN {AppOutcome(0, fs, <<>>)}
    ELSE {LET r == delete_dir_contents(fs[cls], only, how)
          IN AppOutcome(r[1], [fs EXCEPT ![cls] = r[2]], << <<"delete", cls, r[1]>> >>)
          : how \in {"ok", "fail", "partial"}}

\* delete_dir_contents_and_dir(path) on a package directory: <<rc, d'>>; a
\* missing directory cannot be opened, which is an error.
DestroyDirKeepsTop(d, how) ==
    IF d.kind = "absent" \/ how = "fail" THEN <<-1, d>>
    ELSE IF how = "partial" THEN <<-1, [d EXCEPT !.files = FALSE]>>
    ELSE <<0, [d EXCEPT !.cache = "absent", !.code_cache = "absent", !.files = FALSE]>>

DestroyDir(d, how) ==
    IF d.kind = "absent" \/ how = "fail" THEN <<-1, d>>
    ELSE IF how = "partial" THEN <<-1, [d EXCEPT !.files = FALSE]>>
    ELSE <<0, NoDir>>

\* One storage class of destroy_app_data.
DestroyClass(fs, cls) ==
    {LET r == DestroyDir(fs[cls], how)
     IN AppOutcome(r[1], [fs EXCEPT ![cls] = r[2]], << <<"delete", cls, r[1]>> >>)
     : how \in {"ok", "fail", "partial"}}

\* clear_app_data(uuid, pkgname, userid, flags): FLAG_CLEAR_CACHE_ONLY wins
\* over FLAG_CLEAR_CODE_CACHE_ONLY.
ClearAppData ==
    /\ ad.pc = "idle"
    /\ \E flags \in SUBSET (FLAG_CE_STORAGE \cup FLAG_DE_STORAGE), cache_only \in BOOLEAN, code_cache_only \in BOOLEAN :
          LET only == IF cache_only THEN "cache"
                      ELSE IF code_cache_only THEN "code_cache" ELSE "all"
              ce == IF FLAG_CE_STORAGE \subseteq flags THEN ClearClass(afs, "ce", only)
                    ELSE {AppOutcome(0, afs, <<>>)}
              all == UNION {
                        IF FLAG_DE_STORAGE \subseteq flags
                        THEN {AppOutcome(OrResult(c.rc, e.rc), e.fs, c.log \o e.log) :
                                 e \in ClearClass(c.fs, "de", only)}
                        ELSE {c}
                        : c \in ce}
          IN \E o \in all :
                AppDone("clear_app_data", [ad EXCEPT !.flags = flags, !.only = only], o)

\* destroy_app_data(uuid, pkgname, userid, flags)
DestroyAppData ==
    /\ ad.pc = "idle"
    /\ \E flags \in SUBSET (FLAG_CE_STORAGE \cup FLAG_DE_STORAGE) :
          LET ce == IF FLAG_CE_STORAGE \subseteq flags THEN DestroyClass(afs, "ce")
                    ELSE {AppOutcome(0, afs, <<>>)}
              all == UNION {
                        IF FLAG_DE_STORAGE \subseteq flags
                        THEN {AppOutcome(OrResult(c.rc, e.rc), e.fs, c.log \o e.log) :
                                 e \in DestroyClass(c.fs, "de")}
                        ELSE {c}
                        : c \in ce}
          IN \E o \in all : AppDone("destroy_app_data", [ad EXCEPT !.flags = flags], o)

\* What restorecon_app_data returns from the results on CE and on DE.
RestoreconResultBoth(ce_rc, de_rc) == OrResult(ce_rc, de_rc)

RestoreconResult(ce_rc, de_rc) == ce_rc

\* selinux_android_restorecon_pkgdir(path, seinfo, uid, RECURSE) on one class.
RestoreconClass(fs, cls) ==
    IF fs[cls].kind = "absent"
    THEN {AppOutcome(-1, fs, << <<"restorecon", cls, -1>> >>)}
    ELSE {AppOutcome(-1, fs, << <<"restorecon", cls, -1>> >>),
          AppOutcome(0, [fs EXCEPT ![cls].label = "app"], << <<"restorecon", cls, 0>> >>)}

\* restorecon_app_data(uuid, pkgName, userid, flags, appid, seinfo)
RestoreconAppData ==
    /\ ad.pc = "idle"
    /\ \E flags \in SUBSET (FLAG_CE_STORAGE \cup FLAG_DE_STORAGE), valid \in BOOLEAN :
          LET ce == IF FLAG_CE_STORAGE \subseteq flags THEN RestoreconClass(afs, "ce")
                    ELSE {AppOutcome(0, afs, <<>>)}
              all == IF ~valid THEN {AppOutcome(-1, afs, <<>>)}
                     ELSE UNION {
                        IF FLAG_DE_STORAGE \subseteq flags
                        THEN {AppOutcome(RestoreconResult(c.rc, e.rc), e.fs, c.log \o e.log) :
                                 e \in RestoreconClass(c.fs, "de")}
                        ELSE {c}
                        : c \in ce}
          IN \E o \in all :
                AppDone("restorecon_app_data",
                        [ad EXCEPT !.flags = flags, !.valid = valid], o)

\* delete_user(uuid, userid): the user's CE, DE and media directories, and
\* on internal storage the config directory; every result goes into res.
\* Removing a user directory removes the package directory below it.
DeleteUser ==
    /\ ad.pc = "idle"
    /\ \E uuid \in Vols, h \in [{"user", "user_de", "media", "config"} -> {"ok", "fail", "partial"}] :
          LET dirs == IF uuid = "null" THEN <<"user", "user_de", "media", "config">>
                      ELSE <<"user", "user_de", "media">>
              rcOf(p) == IF afs[p] # "absent" /\ h[p] = "ok" THEN 0 ELSE -1
              res == OrResult(OrResult(rcOf("user"), rcOf("user_de")), rcOf("media"))
              fs1 == [afs EXCEPT
                         !.user = delete_dir_contents_and_dir(@, h["user"]),
                         !.user_de = delete_dir_contents_and_dir(@, h["user_de"]),
                         !.media = delete_dir_contents_and_dir(@, h["media"]),
                         !.config = IF uuid = "null"
                                    THEN delete_dir_contents_and_dir(@, h["config"]) ELSE @,
                         !.ce = IF rcOf("user") = 0 THEN NoDir ELSE @,
                         !.de = IF rcOf("user_de") = 0 THEN NoDir ELSE @]
              o == AppOutcome(IF uuid = "null" /\ rcOf("config") # 0 THEN -1 ELSE res,
                              fs1,
                              [i \in 1..Len(dirs) |-> <<"delete", dirs[i], rcOf(dirs[i])>>])
          IN AppDone("delete_user", [ad EXCEPT !.uuid = uuid], o)

\* fs_prepare_dir(path, 0775, AID_SYSTEM, AID_INSTALL): <<rc, dir'>>; a
\* directory found with another mode or owner ("old") is fixed up.
fs_prepare_dir(d) ==
    CASE d = "absent" -> {<<-1, "absent">>, <<-1, "made">>, <<0, "ready">>}
      [] d = "ready" -> {<<0, "ready">>}
      [] OTHER -> {<<-1, d>>, <<0, "ready">>}

\* create_oat_dir(oat_dir, instruction_set): validate, prepare <oat_dir>,
\* restorecon it, prepare <oat_dir>/<isa>; return -1 at the first failure.
CreateOatDir ==
    /\ ad.pc = "idle"
    /\ \E valid \in BOOLEAN, restorecon_ok \in BOOLEAN :
          LET first == {AppOutcome(p[1], [afs EXCEPT !.oat = p[2]],
                                   << <<"prepare", "oat", p[1]>> >>) :
                           p \in fs_prepare_dir(afs.oat)}
              all == IF ~valid THEN {AppOutcome(-1, afs, <<>>)}
                     ELSE UNION {
                        IF c.rc # 0 THEN {c}
                        ELSE IF ~restorecon_ok
                        THEN {AppOutcome(-1, c.fs, c.log \o << <<"restorecon", "oat", -1>> >>)}
                        ELSE {AppOutcome(p[1], [c.fs EXCEPT !.oat_isa = p[2]],
                                         c.log \o << <<"restorecon", "oat", 0>>,
                                                     <<"prepare", "oat_isa", p[1]>> >>) :
                                 p \in fs_prepare_dir(c.fs.oat_isa)}
                        : c \in first}
          IN \E o \in all : AppDone("create_oat_dir", [ad EXCEPT !.valid = valid], o)

\* The trees a call may find.  A package directory is missing, or has the
\* right or another mode, with or without cache, code_cache and other
\* content; it exists only below an existing user directory, and
\* <oat_dir>/<isa> only below an existing <oat_dir>.
AppFsInit ==
    LET PkgDirInit ==
            {NoDir} \cup
            [kind : {"dir"}, mode : {"0751", "0700"}, owner : {"uid"}, label : {"app"},
             cache : {"absent", "full"}, code_cache : {"absent", "full"}, files : BOOLEAN]
    IN
    {f \in [ce : PkgDirInit, de : PkgDirInit, user : {"absent", "present"},
            user_de : {"absent", "present"}, media : {"absent", "present"},
            config : {"absent", "present"}, oat : {"absent", "old"},
            oat_isa : {"absent", "old"}] :
        /\ f.user = f.user_de
        /\ f.user = "absent" => f.ce = NoDir /\ f.de = NoDir
        /\ f.oat = "absent" => f.oat_isa = "absent"}

AppInit ==
    /\ mfs = [p \in MovePaths |-> "absent"]
    /\ mv = MoveIdle
    /\ dfs = DexFsNone
    /\ dx = DexIdle
    /\ ch = NoChild
    /\ im = IdmapIdle
    /\ rx = RaceIdle
    /\ afs \in AppFsInit
    /\ ad = AppIdle
    /\ fc = CacheIdle
    /\ op = NoCall

AppNext ==
    /\ \/ CreateAppData
       \/ ClearAppData
       \/ DestroyAppData
       \/ RestoreconAppData
       \/ DeleteUser
       \/ CreateOatDir
    /\ UNCHANGED <<mfs, mv, dfs, dx, ch, im, rx, fc, op>>

SpecAppData == AppInit /\ [][AppNext]_vars

(***************************************************************************)
(* free_cache                                                              *)
(***************************************************************************)
MaxFree == 2

\* data_disk_free(path): the free bytes, or -1 when statfs fails.
data_disk_free_or_zero(free, ok) == IF ok THEN free ELSE 0

data_disk_free(free, ok) == IF ok THEN free ELSE -1

\* avail >= free_size
FreeEnoughStrict(avail, free_size) == avail > free_size

FreeEnough(avail, free_size) == avail >= free_size

\* avail = data_disk_free(data_path); if (avail < 0) return -1;
\* if (avail >= free_size) return 0; cache = start_cache_collection();
FreeCacheCall ==
    /\ fc.pc = "idle"
    /\ \E uuid \in Vols, F \in 0..(MaxFree + 1), ok \in BOOLEAN :
          LET avail == data_disk_free(fc.free, ok)
              c == [fc EXCEPT !.uuid = uuid, !.F = F, !.first = avail, !.avail = avail,
                              !.qok = ok]
          IN fc' = IF avail < 0 THEN [c EXCEPT !.pc = "done", !.ret = -1]
                   ELSE IF FreeEnough(avail, F) THEN [c EXCEPT !.pc = "done", !.ret = 0]
                   ELSE [c EXCEPT !.pc = "users", !.session = "open"]

\* Whether the loop over the user root adds the entry: a directory that is
\* not "." or ".." ("dot") and whose path fits the buffer ("long" does not).
\* A name that only starts with '.' ("hidden") passes both tests.
UserRootAddedAny(e) == e.isdir

UserRootAdded(e) == e.isdir /\ e.name \notin {"dot", "long"}

\* The owner's cache on internal storage, then the loop over the user root.
FreeCacheAddUsers ==
    /\ fc.pc = "users"
    /\ fc' = [fc EXCEPT
                 !.pc = "media",
                 !.roots = @ \cup (IF fc.uuid = "null"
                                   THEN {[root |-> "owner", e |-> NoEntry]} ELSE {})
                             \cup {[root |-> "user", e |-> e] :
                                      e \in {x \in fc.users : UserRootAdded(x)}}]

\* Whether the loop over the media root adds the entry: a directory whose
\* name starts with a digit and fits the buffer, in which lookup_media_dir
\* finds Android and then, in Android, data.
MediaRootAddedEither(e) ==
    e.isdir /\ e.name = "digit" /\ (e.android \/ e.data)

MediaRootAdded(e) ==
    e.isdir /\ e.name = "digit" /\ (e.android /\ e.data)

\* The loop over android_media_dir.
FreeCacheAddMedia ==
    /\ fc.pc = "media"
    /\ fc' = [fc EXCEPT
                 !.pc = "evict",
                 !.roots = @ \cup {[root |-> "media", e |-> e] :
                                      e \in {x \in fc.media : MediaRootAdded(x)}}]

\* clear_cache_files(data_path, cache, free_size); finish_cache_collection:
\* the evictor deletes files of the added roots (one byte of cache each)
\* until the target is reached; the deletion of a file may fail.
FreeCacheEvict ==
    /\ fc.pc = "evict"
    /\ \E n \in 0..Cardinality(fc.roots) :
          /\ n <= fc.F - fc.free
          /\ fc' = [fc EXCEPT !.pc = "requery", !.session = "finished", !.evictor = TRUE,
                              !.free = @ + n, !.deleted = n]

\* return data_disk_free(data_path) >= free_size ? 0 : -1;
FreeCacheRequery ==
    /\ fc.pc = "requery"
    /\ \E ok \in BOOLEAN :
          LET avail == data_disk_free(fc.free, ok)
          IN fc' = [fc EXCEPT !.pc = "done", !.avail = avail, !.qok = ok,
                              !.ret = IF FreeEnough(avail, fc.F) THEN 0 ELSE -1]

\* The volume a call may find: up to two entries under the user root and up
\* to two under the media root (data is looked up inside Android).  The names
\* are classes: "digit" starts with a digit, "alpha" with a letter, "dot" is
\* "." or "..", "hidden" starts with '.' and is longer, and "long" starts with
\* a digit and does not fit the path buffer behind the base.
FreeCacheInit ==
    /\ mfs = [p \in MovePaths |-> "absent"]
    /\ mv = MoveIdle
    /\ dfs = DexFsNone
    /\ dx = DexIdle
    /\ ch = NoChild
    /\ im = IdmapIdle
    /\ rx = RaceIdle
    /\ afs = AppFsNone
    /\ ad = AppIdle
    /\ op = NoCall
    /\ LET Names == {"digit", "alpha", "dot", "hidden", "long"}
           UserEntries == [name : Names, isdir : BOOLEAN, android : {FALSE},
                           data : {FALSE}]
           MediaEntries == {x \in [name : Names, isdir : BOOLEAN, android : BOOLEAN,
                                   data : BOOLEAN] :
                               /\ x.data => x.android
                               /\ x.android => x.isdir}
       IN \E free \in 0..MaxFree :
          \E users \in {{}} \cup {{a, b} : a \in UserEntries, b \in UserEntries} :
          \E media \in {{}} \cup {{a, b} : a \in MediaEntries, b \in MediaEntries} :
             fc = [CacheIdle EXCEPT !.free = free, !.users = users, !.media = media]

FreeCacheNext ==
    /\ \/ FreeCacheCall
       \/ FreeCacheAddUsers
       \/ FreeCacheAddMedia
       \/ FreeCacheEvict
       \/ FreeCacheRequery
    /\ UNCHANGED <<mfs, mv, dfs, dx, ch, im, rx, afs, ad, op>>

SpecFreeCache == FreeCacheInit /\ [][FreeCacheNext]_vars

(***************************************************************************)
(* linklib                                                                 *)
(***************************************************************************)
\* The out: block: chmod(pkgdir, s.st_mode), then chown(pkgdir, s.st_uid,
\* s.st_gid).  dir is the package directory before the block and s what the
\* initial stat saw; each call that succeeds puts its part back.
LinklibRestoreOwnerOnly(dir, s, chmod_ok, chown_ok) ==
    [mode |-> dir.mode,
     uid |-> IF chown_ok THEN s.uid ELSE dir.uid,
     gid |-> IF chown_ok THEN s.gid ELSE dir.gid]

LinklibRestore(dir, s, chmod_ok, chown_ok) ==
    [mode |-> IF chmod_ok THEN s.mode ELSE dir.mode,
     uid |-> IF chown_ok THEN s.uid ELSE dir.uid,
     gid |-> IF chown_ok THEN s.gid ELSE dir.gid]

\* symlink(asecLibDir, libsymlink): fails with EEXIST when an entry of any
\* kind is at the path, and may fail otherwise.
LinklibSymlinkReplaces(lib, ok) == IF ok THEN "link_asec" ELSE lib

LinklibSymlink(lib, ok) == IF lib = "absent" /\ ok THEN "link_asec" ELSE lib

\* One call linklib(uuid, pkgname, asecLibDir, userId).  The package
\* directory is op.dir (mode, uid, gid) when op.exists, and op.lib is what is
\* at <pkgdir>/lib: "absent", "dir", "link" (a symlink to somewhere else),
\* "file" (a regular file) or "link_asec" (the symlink to asecLibDir).  Every
\* system call may fail.  The call records what the initial stat saw (s),
\* the directory while the entry was replaced (held), which calls of the
\* out: block succeeded, and the return value (-1 stands for -1 and -errno).
Linklib ==
    /\ op.pc = "idle" /\ op.fn = "linklib"
    /\ \E stat_ok, chown_ok, chmod_ok, lstat_ok, rm_ok, symlink_ok, rchmod_ok,
          rchown_ok \in BOOLEAN :
          LET s == op.dir
              done == [op EXCEPT !.pc = "done", !.lib0 = op.lib, !.s = s]
              owned == [s EXCEPT !.uid = "install", !.gid = "install"]
              held == IF chmod_ok THEN [owned EXCEPT !.mode = "0700"] ELSE owned
              \* the entry after the removal of a directory or a symlink
              removed == IF lstat_ok /\ op.lib \in {"dir", "link"} /\ rm_ok
                         THEN "absent" ELSE op.lib
              rm_failed == lstat_ok /\ op.lib \in {"dir", "link"} /\ ~rm_ok
              linked == IF chmod_ok /\ lstat_ok /\ ~rm_failed
                        THEN LinklibSymlink(removed, symlink_ok) ELSE removed
              lib == IF chmod_ok THEN linked ELSE op.lib
              rc == IF chmod_ok /\ lstat_ok /\ ~rm_failed /\ linked = "link_asec"
                    THEN 0 ELSE -1
          IN IF ~(op.exists /\ stat_ok)
                THEN op' = [done EXCEPT !.ret = -1, !.how = "stat"]
             ELSE IF ~chown_ok
                THEN op' = [done EXCEPT !.ret = -1, !.how = "chown"]
             ELSE op' = [done EXCEPT
                            !.how = "out",
                            !.held = held,
                            !.lib = lib,
                            !.dir = LinklibRestore(held, s, rchmod_ok, rchown_ok),
                            !.restored = rchmod_ok /\ rchown_ok,
                            !.ret = IF ~rchown_ok \/ ~rchmod_ok THEN -1 ELSE rc]

(***************************************************************************)
(* Helper functions of dexopt                                              *)
(***************************************************************************)
\* check_boolean_property(name, default_value) with value the property's
\* value ("" when it is unset or empty, so that get_property answers 0).
check_boolean_property_set(value, default_value) ==
    IF value = "" THEN default_value ELSE TRUE

check_boolean_property(value, default_value) ==
    IF value = "" THEN default_value ELSE value = "true"

\* The argv that run_dex2oat hands to execv, <<>> when it returns without
\* exec.  in: too_long (instruction_set has at least 7 characters), xms
\* (dalvik.vm.dex2oat-Xms is set), filter_prop (dalvik.vm.dex2oat-filter),
\* vold_decrypt, vm_safe_mode, use_jit, usejit_prop (debug.usejit), swap_fd
\* (swap_fd >= 0) and flags (the words of dalvik.vm.dex2oat-flags, as split
\* leaves them).  The arguments for the isa variant and features, -Xmx, the
\* thread count, the debug switches and the profile fds are left out.
run_dex2oat(in) ==
    LET skip_compilation == in.vold_decrypt \in {"trigger_restart_min_framework", "1"}
        use_jit == in.use_jit \/ check_boolean_property(in.usejit_prop, FALSE)
        filter ==
            IF skip_compilation THEN <<"--compiler-filter=verify-none">>
            ELSE IF in.vm_safe_mode THEN <<"--compiler-filter=interpret-only">>
            ELSE IF use_jit THEN <<"--compiler-filter=verify-at-runtime">>
            ELSE IF in.filter_prop # "" THEN <<"--compiler-filter=" \o in.filter_prop>>
            ELSE <<>>
    IN IF in.too_long THEN <<>>
       ELSE <<"/system/bin/dex2oat", "--zip-fd=", "--zip-location=", "--oat-fd=",
              "--oat-location=", "--instruction-set=">>
            \o (IF in.xms THEN <<"--runtime-arg", "-Xms">> ELSE <<>>)
            \o filter
            \o (IF in.swap_fd THEN <<"--swap-fd=">> ELSE <<>>)
            \o in.flags
            \o (IF skip_compilation THEN <<"--runtime-arg", "-Xnorelocate">> ELSE <<>>)

\* The longest overlay path tried, and SIZE_MAX at that scale.
MaxPath == 5

SizeMax == 9

\* IDMAP_PREFIX and IDMAP_SUFFIX, one character an element.
IdmapPrefix == <<"/", "r", "/">>

IdmapSuffix == <<"@", "i">>

\* flatten_path(prefix, suffix, overlay_path, idmap_path, N): the return
\* value and the string left in idmap_path (<<>> when it is not written).
\* in: overlay_null, out_null (the pointers are NULL), overlay and N.
\* snprintf writes at most N - 1 characters; the loop then replaces every
\* '/' behind the prefix.
flatten_path_from_start(prefix, suffix, in) ==
    LET s == prefix \o Tail(in.overlay) \o suffix
    IN IF in.overlay_null \/ in.out_null \/ Len(in.overlay) < 2 THEN [rc |-> -1, path |-> <<>>]
       ELSE [rc |-> 0, path |-> [i \in 1..Len(s) |-> IF s[i] = "/" THEN "@" ELSE s[i]]]

flatten_path(prefix, suffix, in) ==
    LET len_overlay_path == Len(in.overlay)
        len_idmap_root == Len(prefix)
        len_suffix == Len(suffix)
        s == prefix \o Tail(in.overlay) \o suffix
        written == SubSeq(s, 1, IF Len(s) < in.N - 1 THEN Len(s) ELSE in.N - 1)
    IN IF in.overlay_null \/ in.out_null THEN [rc |-> -1, path |-> <<>>]
       ELSE IF len_overlay_path < 2 \/ in.overlay[1] # "/" THEN [rc |-> -1, path |-> <<>>]
       ELSE IF \/ SizeMax - len_idmap_root < len_overlay_path
               \/ SizeMax - (len_idmap_root + len_overlay_path) < len_suffix
            THEN [rc |-> -1, path |-> <<>>]
       ELSE IF in.N < len_idmap_root + len_overlay_path + len_suffix
            THEN [rc |-> -1, path |-> <<>>]
       ELSE [rc |-> 0,
             path |-> [i \in 1..Len(written) |->
                          IF i > len_idmap_root /\ written[i] = "/" THEN "@"
                          ELSE written[i]]]

\* get_app_size from the loop over the users on: in.ce (FLAG_CE_STORAGE is
\* in flags), in.code0 (the code size summed before the loop) and in.users,
\* for each user whether opendir(pkgdir) succeeds and the entries readdir
\* gives: name, type ("dir", "lnk", "reg"), stat_ok (fstatat succeeds;
\* stat_size is 1) and sub (calculate_dir_size of a directory).
get_app_size_by_name(in) ==
    LET Size(e) == (IF e.stat_ok THEN 1 ELSE 0) + (IF e.type = "dir" THEN e.sub ELSE 0)
        Bucket(e) == IF e.name = "lib" THEN "code"
                     ELSE IF e.name = "cache" THEN "cache" ELSE "data"
        Add(acc, e) == IF e.type = "dir" /\ e.name \in {".", ".."} THEN acc
                       ELSE [acc EXCEPT ![Bucket(e)] = @ + Size(e)]
        Walk(acc, es) == LET g[i \in 0..Len(es)] ==
                                 IF i = 0 THEN acc ELSE Add(g[i - 1], es[i])
                         IN g[Len(es)]
        f[k \in 0..Len(in.users)] ==
            IF k = 0 THEN [code |-> in.code0, data |-> 0, cache |-> 0]
            ELSE IF in.ce /\ in.users[k].opened THEN Walk(f[k - 1], in.users[k].entries)
            ELSE f[k - 1]
    IN [rc |-> 0, size |-> f[Len(in.users)]]

get_app_size(in) ==
    LET Size(e) == (IF e.stat_ok THEN 1 ELSE 0) + (IF e.type = "dir" THEN e.sub ELSE 0)
        Bucket(e) == IF e.type = "dir" /\ e.name = "lib" THEN "code"
                     ELSE IF e.type = "dir" /\ e.name = "cache" THEN "cache"
                     ELSE IF e.type = "lnk" /\ e.name = "lib" THEN "code"
                     ELSE "data"
        Add(acc, e) == IF e.type = "dir" /\ e.name \in {".", ".."} THEN acc
                       ELSE [acc EXCEPT ![Bucket(e)] = @ + Size(e)]
        Walk(acc, es) == LET g[i \in 0..Len(es)] ==
                                 IF i = 0 THEN acc ELSE Add(g[i - 1], es[i])
                         IN g[Len(es)]
        f[k \in 0..Len(in.users)] ==
            IF k = 0 THEN [code |-> in.code0, data |-> 0, cache |-> 0]
            ELSE IF in.ce /\ in.users[k].opened THEN Walk(f[k - 1], in.users[k].entries)
            ELSE f[k - 1]
    IN [rc |-> 0, size |-> f[Len(in.users)]]

\* One call of a helper function: op.fn applied to op.in gives op.res.
HelperCall ==
    /\ op.pc = "idle"
    /\ op.fn \in {"ShouldUseSwapFileForDexopt", "run_dex2oat", "flatten_path",
                 "get_app_size"}
    /\ op' = [op EXCEPT
                 !.pc = "done",
                 !.res = CASE op.fn = "ShouldUseSwapFileForDexopt" ->
                                <<ShouldUseSwapFileForDexopt(
                                      op.in.always, op.in.dflt, op.in.swap_prop,
                                      check_boolean_property(op.in.low_ram, FALSE))>>
                           [] op.fn = "run_dex2oat" -> run_dex2oat(op.in)
                           [] op.fn = "flatten_path" ->
                                flatten_path(IdmapPrefix, IdmapSuffix, op.in)
                           [] op.fn = "get_app_size" -> get_app_size(op.in)]

(***************************************************************************)
(* movefiles                                                               *)
(*                                                                         *)
(* A script is a sequence of characters: "N" is the newline, "_" a space,  *)
(* ":" and "#" themselves, every other character a letter.  The package    *)
(* directories of "g" (uid 1) and "h" (uid 2) exist, no other does.        *)
(***************************************************************************)
\* PKG_PATH_MAX, the bytes buf holds, and PKG_NAME_MAX, scaled down.
BufMax == 5

NameMax == 2

\* Lines 1335-1412: what one line does to srcpkg, dstpkg, dstuid (dstgid
\* goes with it) and to the calls of movefileordir, in st.  create_pkg_path
\* and create_move_path succeed; the directory of the empty name does not
\* exist (with an empty dstpkg no path line moves anything either way).
MovefilesLine(st, line) ==
    LET Blank == {i \in 1..Len(line) : \A j \in 1..i : line[j] = "_"}
        bufp == Cardinality(Blank)
        hasspace == bufp > 0
        rest == SubSeq(line, bufp + 1, Len(line))
        Colons == {i \in 1..Len(rest) : rest[i] = ":"}
        div == CHOOSE i \in Colons : \A j \in Colons : i <= j
        dst == SubSeq(rest, 1, div - 1)
        src == SubSeq(rest, div + 1, Len(rest))
        Uid(pkg) == IF pkg = <<"g">> THEN 1 ELSE IF pkg = <<"h">> THEN 2 ELSE -1
        dstpkg1 == IF Len(dst) < NameMax THEN dst ELSE <<>>
        srcpkg2 == IF Len(src) < NameMax THEN src ELSE <<>>
        dstpkg2 == IF Len(src) < NameMax THEN dstpkg1 ELSE <<>>
    IN IF rest = <<>> \/ rest[1] = "#" THEN st
       ELSE IF hasspace
            THEN IF st.dstpkg = <<>> \/ st.srcpkg = <<>> THEN st
                 ELSE [st EXCEPT !.moves = Append(@, [src |-> st.srcpkg, dst |-> st.dstpkg,
                                                      path |-> rest, uid |-> st.dstuid])]
       ELSE IF Colons = {} THEN st
       ELSE IF srcpkg2 = <<>> THEN [st EXCEPT !.srcpkg = <<>>, !.dstpkg = dstpkg2]
       ELSE IF Uid(srcpkg2) = -1 THEN [st EXCEPT !.srcpkg = <<>>, !.dstpkg = dstpkg2]
       ELSE IF Uid(dstpkg2) = -1 THEN [st EXCEPT !.srcpkg = <<>>, !.dstpkg = dstpkg2]
       ELSE [st EXCEPT !.srcpkg = srcpkg2, !.dstpkg = dstpkg2, !.dstuid = Uid(dstpkg2)]

\* Lines 1426-1432: whether the loop over a script ends after a read.
MovefilesBreaksOnError(readlen) == readlen < 0

MovefilesBreaks(readlen) == readlen <= 0

\* movefiles, one step: opendir (1301), one readdir with the openat and the
\* resets (1310-1326), or one round of the loop at 1327, which either
\* handles the line that ends at the first newline of buf[bufp..bufe) or
\* moves the rest of the buffer to its start and reads.  memcpy (1421) on
\* regions that overlap is undefined: the bytes come out as by a copy from
\* the front or as by a copy from the back.  read returns -1 (where the
\* storage may fail, op.may_fail), or 0 at the end of the file and for a
\* count of 0, or any count it can deliver.
MovefilesStep ==
    /\ op.fn = "movefiles"
    /\ \/ /\ op.pc = "idle"
          /\ op' = IF op.dir_ok THEN [op EXCEPT !.pc = "scan"]
                   ELSE [op EXCEPT !.pc = "done", !.ret = 0]
       \/ /\ op.pc = "scan"
          /\ IF op.k = Len(op.entries) THEN op' = [op EXCEPT !.pc = "done", !.ret = 0]
             ELSE LET de == op.entries[op.k + 1]
                  IN IF de.type = "dir" \/ ~de.open_ok THEN op' = [op EXCEPT !.k = @ + 1]
                     ELSE op' = [op EXCEPT !.k = @ + 1, !.pc = "loop", !.pos = 0,
                                           !.buf = <<>>, !.bufp = 0,
                                           !.st.srcpkg = <<>>, !.st.dstpkg = <<>>]
       \/ /\ op.pc = "loop"
          /\ LET bufe == Len(op.buf)
                 data == op.entries[op.k].data
                 Newlines == {i \in op.bufp + 1..bufe : op.buf[i] = "N"}
                 bufi == CHOOSE i \in Newlines : \A j \in Newlines : i <= j
                 line == SubSeq(op.buf, op.bufp + 1, bufi - 1)
                 n == bufe - op.bufp
                 front == SubSeq(op.buf, op.bufp + 1, bufe)
                 back == LET b[i \in 1..n] == IF i + op.bufp <= n THEN b[i + op.bufp]
                                              ELSE op.buf[i + op.bufp]
                         IN [i \in 1..n |-> b[i]]
                 Moved == IF op.bufp = 0 \/ n = 0 THEN {op.buf}
                          ELSE IF op.bufp < n THEN {front, back} ELSE {front}
             IN IF Newlines # {}
                THEN op' = [op EXCEPT !.st = MovefilesLine(op.st, line), !.bufp = bufi,
                                      !.lines = Append(@, <<op.k, line>>)]
                ELSE \E buf2 \in Moved :
                        LET bufp2 == IF op.bufp = 0 \/ n = 0 THEN op.bufp ELSE 0
                            count == BufMax - Len(buf2)
                            left == Len(data) - op.pos
                            most == IF count < left THEN count ELSE left
                            Reads == (IF op.may_fail THEN {-1} ELSE {})
                                     \cup (IF most = 0 THEN {0} ELSE 1..most)
                        IN \E readlen \in Reads :
                              op' = IF MovefilesBreaks(readlen)
                                    THEN [op EXCEPT !.pc = "scan", !.buf = buf2,
                                                    !.bufp = bufp2,
                                                    !.rderr = @ \/ readlen < 0]
                                    ELSE [op EXCEPT !.pos = @ + readlen, !.bufp = bufp2,
                                                    !.buf = buf2 \o SubSeq(data, op.pos + 1,
                                                                           op.pos + readlen)]

(***************************************************************************)
(* The daemon serving one call of linklib or of a helper function          *)
(***************************************************************************)
\* linklib finds a package directory as the installer leaves it, or none,
\* and any kind of entry at <pkgdir>/lib; a helper function is called with
\* any build switches, property values and arguments.
CallInit ==
    /\ mfs = [p \in MovePaths |-> "absent"]
    /\ mv = MoveIdle
    /\ dfs = DexFsNone
    /\ dx = DexIdle
    /\ ch = NoChild
    /\ im = IdmapIdle
    /\ rx = RaceIdle
    /\ afs = AppFsNone
    /\ ad = AppIdle
    /\ fc = CacheIdle
    /\ \/ \E exists \in BOOLEAN, mode \in {"0751", "0755"}, uid \in {"app", "system"},
             gid \in {"app", "system"}, lib \in {"absent", "dir", "link", "file"} :
             /\ ~exists => (mode = "0751" /\ uid = "app" /\ gid = "app" /\ lib = "absent")
             /\ op = [pc |-> "idle", fn |-> "linklib", exists |-> exists,
                      dir |-> [mode |-> mode, uid |-> uid, gid |-> gid],
                      lib |-> lib, lib0 |-> lib,
                      s |-> [mode |-> mode, uid |-> uid, gid |-> gid],
                      held |-> [mode |-> mode, uid |-> uid, gid |-> gid],
                      restored |-> FALSE, how |-> "none", ret |-> 0]
       \/ \E in \in [always : BOOLEAN, dflt : BOOLEAN,
                    swap_prop : {"", "true", "false", "1"},
                    low_ram : {"", "true", "false"}] :
             op = [pc |-> "idle", fn |-> "ShouldUseSwapFileForDexopt", in |-> in,
                   res |-> <<>>]
       \/ \E in \in [too_long : BOOLEAN, xms : BOOLEAN, filter_prop : {"", "speed"},
                    vold_decrypt : {"", "trigger_restart_min_framework", "1",
                                    "trigger_restart_framework"},
                    vm_safe_mode : BOOLEAN, use_jit : BOOLEAN,
                    usejit_prop : {"", "true", "false"}, swap_fd : BOOLEAN,
                    flags : {<<>>, <<"--no-watch-dog">>, <<"--compiler-filter=speed">>,
                             <<"--runtime-arg", "-Xnorelocate">>}] :
             op = [pc |-> "idle", fn |-> "run_dex2oat", in |-> in, res |-> <<>>]
       \/ \E in \in [overlay_null : BOOLEAN, out_null : BOOLEAN,
                    overlay : UNION {[1..n -> {"/", "a"}] : n \in 0..MaxPath},
                    N : 0..SizeMax] :
             /\ in.overlay_null => in.overlay = <<>>
             /\ op = [pc |-> "idle", fn |-> "flatten_path", in |-> in, res |-> <<>>]
       \/ LET Entries == {e \in [name : {"lib", "cache", "files", "."},
                                 type : {"dir", "lnk", "reg"}, stat_ok : BOOLEAN,
                                 sub : {0, 2}] :
                              /\ e.name = "." => e.type = "dir"
                              /\ e.sub = 2 <=> e.type = "dir"
                              /\ ~e.stat_ok => (e.name = "lib" /\ e.type # "reg")}
              Listings == {<<>>} \cup {<<a>> : a \in Entries}
                                \cup {<<a, b>> : a \in Entries, b \in Entries}
          IN \E ce \in BOOLEAN, code0 \in {0, 1}, opened \in BOOLEAN, es \in Listings,
                more \in {<<>>, <<[opened |-> TRUE,
                                   entries |-> <<[name |-> "lib", type |-> "dir",
                                                  stat_ok |-> TRUE, sub |-> 2]>>]>>} :
                op = [pc |-> "idle", fn |-> "get_app_size",
                      in |-> [ce |-> ce, code0 |-> code0,
                              users |-> <<[opened |-> opened, entries |-> es]>> \o more],
                      res |-> <<>>]
       \/ LET Long == <<"_">> \o [i \in 1..BufMax - 1 |-> "f"]
              LongName == [i \in 1..NameMax |-> "g"]
              Kinds == {<<"g", ":", "h">>, <<"h", ":", "g">>, <<"g", ":", "m">>,
                        <<"m", ":", "g">>, LongName \o <<":", "h">>,
                        <<"g", ":">> \o LongName, <<"g">>, <<"#">>, <<>>, <<"_", "f">>,
                        Long}
              Tails == {<<>>, <<"_", "f">>}
              Scripts == {tl : tl \in Tails}
                         \cup {a \o <<"N">> \o tl : a \in Kinds, tl \in Tails}
                         \cup {a \o <<"N">> \o b \o <<"N">> \o tl :
                                  a \in Kinds, b \in Kinds, tl \in Tails}
                         \cup {a \o <<"N">> \o b \o <<"N">> \o c \o <<"N">> :
                                  a \in {<<"g", ":", "h">>, <<"g">>, Long},
                                  b \in Kinds, c \in {<<"_", "f">>, <<"h", ":", "g">>}}
              First == {[type |-> "dir", open_ok |-> TRUE, data |-> <<>>],
                        [type |-> "file", open_ok |-> FALSE, data |-> <<>>]}
                       \cup {[type |-> "file", open_ok |-> TRUE, data |-> s] : s \in Scripts}
              Second == [type |-> "file", open_ok |-> TRUE, data |-> <<"_", "f", "N">>]
          IN \E dir_ok \in BOOLEAN, may_fail \in BOOLEAN, e \in First,
                more \in {<<>>, <<Second>>} :
                /\ ~dir_ok => (e.type = "dir" /\ more = <<>> /\ ~may_fail)
                /\ op = [pc |-> "idle", fn |-> "movefiles", dir_ok |-> dir_ok,
                         may_fail |-> may_fail,
                         entries |-> <<e>> \o more, k |-> 0, pos |-> 0, buf |-> <<>>,
                         bufp |-> 0, rderr |-> FALSE, lines |-> <<>>, ret |-> -1,
                         st |-> [srcpkg |-> <<>>, dstpkg |-> <<>>, dstuid |-> -1,
                                 moves |-> <<>>]]

CallNext ==
    /\ \/ Linklib
       \/ HelperCall
       \/ MovefilesStep
    /\ UNCHANGED <<mfs, mv, dfs, dx, ch, im, rx, afs, ad, fc>>

SpecCalls == CallInit /\ [][CallNext]_vars

\* Every call the daemon makes into the kernel returns: a call is never
\* left waiting for its next step.
SpecCallsLive == SpecCalls /\ WF_vars(CallNext)

(***************************************************************************)
(* Claims about path validation                                            *)
(***************************************************************************)
\* C11: a command whose caller-supplied path is rejected by the validator
\* returns an error having opened, created or chowned no file; for dexopt:
\* when validate_apk_path rejects oat_dir, dexopt has returned -1 with no
\* profile pair obtained and no fd open.
C11_RejectedPathNoEffect ==
    (dx.pc = "done" /\ dx.how = "invalid_oat_dir") =>
        /\ dx.ret = -1
        /\ dx.lists = {}
        /\ dx.open = {}

(***************************************************************************)
(* Claims about the app-data commands                                      *)
(***************************************************************************)
AppReturned(cmd) == ad.pc = "done" /\ ad.cmd = cmd

\* The storage classes a flag set enables.
EnabledClasses(flags) ==
    {c \in {"ce", "de"} : (c = "ce" /\ "CE" \in flags) \/ (c = "de" /\ "DE" \in flags)}

\* The directories the logged helper calls were made on, and those that failed.
LogDirs == {ad.log[i][2] : i \in 1..Len(ad.log)}

LogFailed == {ad.log[i][2] : i \in {j \in 1..Len(ad.log) : ad.log[j][3] # 0}}

\* C12: after create_app_data returned 0 every enabled class's directory
\* exists with mode 0751, owner (uid, uid) and its SELinux context set; a
\* failing prepare or setfilecon is the last step made and gives -1, so a
\* failure on CE leaves the DE directory unattempted.
C12_CreateAppData ==
    AppReturned("create_app_data") =>
        /\ ad.ret = 0 =>
              \A c \in EnabledClasses(ad.flags) :
                  /\ afs[c].kind = "dir" /\ afs[c].mode = "0751"
                  /\ afs[c].owner = "uid" /\ afs[c].label = "app"
        /\ ad.ret = (IF LogFailed = {} THEN 0 ELSE -1)
        /\ \A i \in 1..Len(ad.log) : ad.log[i][3] # 0 => i = Len(ad.log)
        /\ "ce" \in LogFailed => "de" \notin LogDirs /\ afs.de = ad.fs0.de

\* Both directories were missing and both were made.
C12_Witness ==
    /\ AppReturned("create_app_data") /\ ad.ret = 0
    /\ ad.flags = {"CE", "DE"}
    /\ ad.fs0.ce.kind = "absent" /\ ad.fs0.de.kind = "absent"
    /\ afs.ce.kind = "dir" /\ afs.de.kind = "dir"

\* C13: when create_app_data or create_oat_dir returns non-zero, the
\* filesystem is as it was before the call.
C13_FailureReverted ==
    ((AppReturned("create_app_data") \/ AppReturned("create_oat_dir")) /\ ad.ret # 0) =>
        afs = ad.fs0

\* C14: clear_app_data leaves the targeted top directory and everything
\* outside the targeted subtree as they were; a class that is not enabled
\* or whose target is missing is unchanged; when it returns 0 the contents
\* of every existing target are gone; with no existing target it returns 0.
C14_ClearAppData ==
    AppReturned("clear_app_data") =>
        LET targeted(c) ==
                /\ c \in EnabledClasses(ad.flags)
                /\ ad.fs0[c].kind = "dir"
                /\ ad.only # "all" => ad.fs0[c][ad.only] # "absent"
        IN /\ \A c \in {"ce", "de"} :
                 /\ afs[c].kind = ad.fs0[c].kind /\ afs[c].mode = ad.fs0[c].mode
                 /\ afs[c].owner = ad.fs0[c].owner /\ afs[c].label = ad.fs0[c].label
                 /\ ~targeted(c) => afs[c] = ad.fs0[c]
                 /\ ad.only = "cache" =>
                       /\ afs[c].code_cache = ad.fs0[c].code_cache
                       /\ afs[c].files = ad.fs0[c].files
                       /\ (afs[c].cache = "absent") = (ad.fs0[c].cache = "absent")
                 /\ ad.only = "code_cache" =>
                       /\ afs[c].cache = ad.fs0[c].cache
                       /\ afs[c].files = ad.fs0[c].files
                       /\ (afs[c].code_cache = "absent") = (ad.fs0[c].code_cache = "absent")
                 /\ (targeted(c) /\ ad.ret = 0) =>
                       IF ad.only = "all"
                       THEN /\ afs[c].cache = "absent" /\ afs[c].code_cache = "absent"
                            /\ ~afs[c].files
                       ELSE afs[c][ad.only] = "empty"
           /\ (\A c \in {"ce", "de"} : ~targeted(c)) => ad.ret = 0 /\ afs = ad.fs0
           /\ [afs EXCEPT !.ce = NoDir, !.de = NoDir] = [ad.fs0 EXCEPT !.ce = NoDir, !.de = NoDir]

\* The cache of the CE directory was emptied, the rest of it kept, and the
\* DE directory was missing.
C14_Witness ==
    /\ AppReturned("clear_app_data") /\ ad.ret = 0
    /\ ad.flags = {"CE", "DE"} /\ ad.only = "cache"
    /\ ad.fs0.ce.cache = "full" /\ afs.ce.cache = "empty"
    /\ afs.ce.files /\ afs.ce.code_cache = "full"
    /\ ad.fs0.de.kind = "absent"

\* C15: after destroy_app_data returned 0 no enabled class's package
\* directory exists (with CE|DE: neither); a class that is not enabled is
\* left as it was.
C15_DestroyAppData ==
    AppReturned("destroy_app_data") =>
        \A c \in {"ce", "de"} :
            IF c \in EnabledClasses(ad.flags)
            THEN ad.ret = 0 => afs[c].kind = "absent"
            ELSE afs[c] = ad.fs0[c]

C15_Witness ==
    /\ AppReturned("destroy_app_data") /\ ad.ret = 0
    /\ ad.flags = {"CE", "DE"}
    /\ ad.fs0.ce.kind = "dir" /\ ad.fs0.de.kind = "dir"
    /\ afs.ce.kind = "absent" /\ afs.de.kind = "absent"

\* The deletions a command has to attempt.
C16Expected ==
    CASE ad.cmd = "destroy_app_data" -> EnabledClasses(ad.flags)
      [] ad.cmd = "clear_app_data" ->
            {c \in EnabledClasses(ad.flags) :
                /\ ad.fs0[c].kind = "dir"
                /\ ad.only # "all" => ad.fs0[c][ad.only] # "absent"}
      [] ad.cmd = "delete_user" ->
            {"user", "user_de", "media"} \cup (IF ad.uuid = "null" THEN {"config"} ELSE {})

C17_RestoreconAppData ==
    (AppReturned("restorecon_app_data") /\ ad.valid) =>
        /\ ad.ret = (IF "ce" \in LogFailed THEN -1 ELSE 0)
        /\ LogDirs = EnabledClasses(ad.flags)

\* Only the DE relabel failed.
C17_Witness ==
    /\ AppReturned("restorecon_app_data") /\ ad.valid
    /\ ad.flags = {"CE", "DE"}
    /\ LogFailed = {"de"} /\ ad.ret = 0

(***************************************************************************)
(* Claims about free_cache                                                 *)
(***************************************************************************)
\* C18 as stated: when free_cache returns 0 the volume has at least F bytes
\* free, and when it returns -1 (a failed free-space query included) it
\* has less than F bytes free.
C18_ReturnTellsFreeSpace ==
    fc.pc = "done" =>
        /\ fc.ret = 0 => fc.free >= fc.F
        /\ fc.ret = -1 => fc.free < fc.F

\* C18 amended: when free_cache returns 0 its last free-space query
\* succeeded and the volume has at least F bytes free; when it returns -1
\* either its last query failed or the volume has less than F bytes free.
C18_ReturnTellsLastQuery ==
    fc.pc = "done" =>
        /\ fc.ret \in {0, -1}
        /\ fc.ret = 0 => fc.qok /\ fc.free >= fc.F
        /\ fc.ret = -1 => ~fc.qok \/ fc.free < fc.F

\* The sweep freed what was missing.
C18_Witness ==
    /\ fc.pc = "done" /\ fc.ret = 0
    /\ fc.evictor /\ fc.deleted > 0 /\ fc.first < fc.F

\* C19: when the first query answers at least the target, free_cache
\* returns 0 with no cache-collection session begun, no root added, the
\* evictor not run and nothing deleted.
C19_EnoughSpaceNoSweep ==
    (fc.pc = "done" /\ fc.first >= fc.F) =>
        /\ fc.ret = 0
        /\ fc.session = "none" /\ fc.roots = {}
        /\ ~fc.evictor /\ fc.deleted = 0

\* Exactly the target was free, on a volume with a media directory that a
\* sweep would have added.
C19_Witness ==
    /\ fc.pc = "done" /\ fc.ret = 0
    /\ fc.first = fc.F /\ fc.F > 0
    /\ \E e \in fc.media : e.isdir /\ e.name = "digit" /\ e.android /\ e.data

\* C20: every root added from the media directory is a directory whose
\* name starts with a digit and that holds Android and, in it, data.
C20_MediaRootsChecked ==
    \A r \in fc.roots :
        r.root = "media" =>
            /\ r.e \in fc.media
            /\ r.e.isdir /\ r.e.name = "digit" /\ r.e.android /\ r.e.data

\* A media directory was added and the sweep went on.
C20_Witness ==
    /\ fc.pc = "evict"
    /\ \E r \in fc.roots : r.root = "media"

\* C21 (as stated): no directory whose name starts with '.' and no directory
\* whose path does not fit the buffer is added by either scan.
C21_DotNamesAndLongSkipped ==
    \A r \in fc.roots :
        r.root \in {"user", "media"} => r.e.name \notin {"dot", "hidden", "long"}

\* C21 (amended): the user scan skips "." and "..", the media scan skips
\* every name that starts with '.', both skip a name that does not fit the
\* buffer, and a skipped entry does not end the scan: once both scans are
\* over, every other directory of the user root and every checked directory
\* of the media root has been added.
C21_SkippedEntriesDoNotAbort ==
    /\ \A r \in fc.roots :
          /\ r.root = "user" => r.e.name \notin {"dot", "long"}
          /\ r.root = "media" => r.e.name \notin {"dot", "hidden", "long"}
    /\ fc.pc \in {"evict", "requery"} =>
          /\ \A e \in fc.users :
                (e.isdir /\ e.name \in {"digit", "alpha", "hidden"})
                    => [root |-> "user", e |-> e] \in fc.roots
          /\ \A e \in fc.media :
                (e.isdir /\ e.name = "digit" /\ e.android /\ e.data)
                    => [root |-> "media", e |-> e] \in fc.roots

\* Both scans met a directory that does not fit the buffer next to one that
\* was added, and the user scan met "." or "..".
C21_Witness ==
    /\ fc.pc = "evict"
    /\ \E a \in fc.users, b \in fc.users :
          /\ a.isdir /\ a.name = "long"
          /\ b.isdir /\ b.name = "digit" /\ [root |-> "user", e |-> b] \in fc.roots
    /\ \E a \in fc.media, b \in fc.media :
          /\ a.isdir /\ a.name = "long" /\ a.android /\ a.data
          /\ [root |-> "media", e |-> b] \in fc.roots

(***************************************************************************)
(* Claims about linklib                                                    *)
(***************************************************************************)
\* C22 (as stated): on every return that follows the initial chown, the
\* package directory has the mode, uid and gid that the initial stat saw.
C22_RestoredOnEveryPath ==
    (op.pc = "done" /\ op.fn = "linklib" /\ op.how = "out") => op.dir = op.s

\* C22 (amended): every return that follows the initial chown passes through
\* the restoring chmod and chown; the directory has the mode, uid and gid of
\* the initial stat when both succeed, hence whenever linklib returns 0, and
\* linklib returns non-zero when one of them fails.  A return before the
\* initial chown took effect leaves the directory as it was.
C22_RestoredWhenRestoreSucceeds ==
    (op.pc = "done" /\ op.fn = "linklib") =>
        /\ op.how \in {"stat", "chown"} => (op.dir = op.s /\ op.ret # 0)
        /\ op.how = "out" =>
              /\ op.held.uid = "install" /\ op.held.gid = "install"
              /\ op.restored => op.dir = op.s
              /\ op.ret = 0 => op.dir = op.s
              /\ ~op.restored => op.ret # 0

\* The symlink failed on a regular file under the elevated mode, and the
\* directory got its mode and owner back.
C22_Witness ==
    /\ op.pc = "done" /\ op.fn = "linklib" /\ op.how = "out"
    /\ op.lib0 = "file" /\ op.ret # 0
    /\ op.held = [mode |-> "0700", uid |-> "install", gid |-> "install"]
    /\ op.s.mode = "0751" /\ op.s.uid = "app"
    /\ op.dir = op.s

\* C23 (as stated): after any call the lib entry is a symlink or absent,
\* whatever it was before, and after a return of 0 it is the symlink to the
\* ASEC library directory.
C23_LibIsSymlinkOrAbsent ==
    (op.pc = "done" /\ op.fn = "linklib") =>
        /\ op.lib \in {"absent", "link", "link_asec"}
        /\ op.ret = 0 => op.lib = "link_asec"

\* C23 (amended): linklib never makes the lib entry a regular file, and an
\* entry that was absent or a symlink is absent or a symlink afterwards; a
\* regular file found at the path stays there and linklib returns non-zero;
\* a directory found there stays, or is removed, or is replaced; after a
\* return of 0 the entry is the symlink to the ASEC library directory.
C23_LibNeverBecomesFile ==
    (op.pc = "done" /\ op.fn = "linklib") =>
        /\ op.lib0 \in {"absent", "link"} => op.lib \in {"absent", "link", "link_asec"}
        /\ op.lib0 = "file" => (op.lib = "file" /\ op.ret # 0)
        /\ op.lib0 = "dir" => op.lib \in {"dir", "absent", "link_asec"}
        /\ op.lib = "file" => op.lib0 = "file"
        /\ op.ret = 0 => op.lib = "link_asec"

\* A lib directory was replaced by the symlink.
C23_Witness ==
    /\ op.pc = "done" /\ op.fn = "linklib"
    /\ op.lib0 = "dir" /\ op.lib = "link_asec" /\ op.ret = 0

(***************************************************************************)
(* Claims about the forked child and its output                            *)
(***************************************************************************)
\* C24: a command forks at most one child, and between the fork and the
\* return of the wait the parent does nothing: while the child has not
\* ended the parent's state does not change, no second fork is at hand, and
\* the step that ends the wait happens after the child's end and leaves the
\* files alone.
C24_ParentOnlyWaits ==
    [][/\ (ch.pc # "none") => (dx.pc # "fork" /\ im.pc # "fork")
       /\ (ch.pc = "none" /\ ch'.pc # "none") =>
              \/ (dx.pc = "fork" /\ dx'.pc = "wait" /\ im' = im)
              \/ (im.pc = "fork" /\ im'.pc = "wait" /\ dx' = dx)
       /\ (ch.pc \notin {"none", "exited"}) => (dx' = dx /\ im' = im)
       /\ (dx.pc = "wait" /\ dx'.pc # "wait") => (ch.pc = "exited" /\ dfs' = dfs)
       /\ (im.pc = "wait" /\ im'.pc # "wait") => (ch.pc = "exited" /\ dfs' = dfs)]_vars

\* The compiler runs in the child while dexopt waits.
C24_Witness ==
    /\ dx.pc = "wait" /\ dx.forked
    /\ ch.pc = "running"

\* C25: idmap forks only with the output file created by this call at the
\* idmap path, owned by (AID_SYSTEM, uid) with mode 0644; it returns 0 only
\* after a child that ended with status 0; and when it fails after having
\* created the file, the fd is closed and no file is left at the path.
C25_IdmapOutput ==
    /\ (im.pc \in {"fork", "wait"} \/ im.forked) =>
          /\ im.created
          /\ im.pc # "done" =>
                /\ IdmapFd \in im.open
                /\ dfs.idmap.kind = "file" /\ dfs.idmap.by = "call"
                /\ dfs.idmap.owner = <<"AID_SYSTEM", "uid">>
                /\ dfs.idmap.mode = "0644"
    /\ (im.pc = "done" /\ im.ret = 0) =>
          /\ im.forked /\ ch.pc = "exited" /\ ch.exit = 0
          /\ dfs.idmap.kind = "file" /\ dfs.idmap.by = "call"
    /\ (im.pc = "done" /\ im.ret # 0 /\ im.created) =>
          /\ IdmapFd \notin im.open
          /\ dfs.idmap.kind = "absent"

\* The child ended with a non-zero status and the file created over an old
\* one is gone.
C25_Witness ==
    /\ im.pc = "done" /\ im.ret = -1
    /\ im.created /\ im.forked
    /\ ch.pc = "exited" /\ ch.exit # 0
    /\ dfs.idmap.kind = "absent"

\* C26: when dexopt is called with use_profiles and open_profile_files adds
\* no pair, that step returns 0, and from the call to this return no child
\* is forked, neither the input nor the output nor a swap file is opened,
\* and the files at the output and swap paths are left as they were.
C26_NoProfilesNoCompile ==
    [][/\ (dx.pc \in {"idle", "profiles"}) => (dfs' = dfs /\ ch' = ch /\ ch = NoChild)
       /\ (dx.pc = "profiles" /\ dx.a.use_profiles /\ dx'.lists = {}) =>
              /\ dx'.pc = "done" /\ dx'.ret = 0
              /\ ~dx'.forked /\ ~dx'.created
              /\ dx'.open \cap {InputFd, OutFd, SwapFd} = {}]_vars

\* A call that had everything to compile from returned 0 at the profile
\* step.
C26_Witness ==
    /\ dx.pc = "done" /\ dx.how = "skip" /\ dx.ret = 0
    /\ dx.a.use_profiles /\ dx.lists = {}
    /\ dfs.apk /\ dfs.out = OldOutFile /\ dfs.swap = "old"
    /\ ch = NoChild

(***************************************************************************)
(* Claims about the helper functions of dexopt                             *)
(***************************************************************************)
\* C27: the swap-file decision is TRUE under the compile-time "always"
\* switch; else, with dalvik.vm.dex2oat-swap set, it is whether the value is
\* "true"; else TRUE when the compile-time default is yes; else whether
\* ro.config.low_ram is "true".
C27_SwapDecision ==
    (op.pc = "done" /\ op.fn = "ShouldUseSwapFileForDexopt") =>
        op.res = << IF op.in.always THEN TRUE
                    ELSE IF op.in.swap_prop # "" THEN op.in.swap_prop = "true"
                    ELSE IF op.in.dflt THEN TRUE
                    ELSE op.in.low_ram = "true" >>

\* The property says "false" on a low-RAM device whose build default is yes.
C27_Witness ==
    /\ op.pc = "done" /\ op.fn = "ShouldUseSwapFileForDexopt"
    /\ ~op.in.always /\ op.in.swap_prop = "false" /\ op.in.dflt /\ op.in.low_ram = "true"
    /\ op.res = <<FALSE>>

\* The --compiler-filter arguments, and how many of them a word list holds.
C30FilterArgs ==
    {"--compiler-filter=verify-none", "--compiler-filter=interpret-only",
     "--compiler-filter=verify-at-runtime", "--compiler-filter=speed"}

C30Filters(args) == {i \in 1..Len(args) : args[i] \in C30FilterArgs}

C30HasNorelocate(args) ==
    \E i \in 1..(Len(args) - 1) : args[i] = "--runtime-arg" /\ args[i + 1] = "-Xnorelocate"

C30VerifyNone == op.in.vold_decrypt \in {"trigger_restart_min_framework", "1"}

\* The filter the first matching rule chooses, "" when none matches.
C30Expected ==
    IF C30VerifyNone THEN "--compiler-filter=verify-none"
    ELSE IF op.in.vm_safe_mode THEN "--compiler-filter=interpret-only"
    ELSE IF op.in.use_jit \/ op.in.usejit_prop = "true"
         THEN "--compiler-filter=verify-at-runtime"
    ELSE IF op.in.filter_prop = "speed" THEN "--compiler-filter=speed"
    ELSE ""

C28_SwapFileHasNoPath ==
    [][/\ (SwapFd \in dx'.open /\ dx'.pc # "swap_unlink") => dfs'.swap = "absent"
       /\ dx.pc = "swap" =>
             \/ dx'.pc = "fork" /\ SwapFd \notin dx'.open /\ dfs'.swap # "call"
             \/ dx'.pc = "swap_unlink" /\ SwapFd \in dx'.open /\ dfs'.swap = "call"
       /\ dx.pc = "swap_unlink" =>
             (dx'.pc = "fork" /\ SwapFd \in dx'.open /\ dfs'.swap = "absent")]_vars

\* The child runs with the swap fd and nothing is at the swap path.
C28_Witness ==
    /\ dx.pc = "wait" /\ dx.forked /\ ch.pc = "running"
    /\ SwapFd \in dx.open
    /\ dfs.swap = "absent"

\* C29: with PATCHOAT_NEEDED or SELF_PATCHOAT_NEEDED dexopt neither creates
\* nor unlinks anything at <out_path>.swap and opens no swap fd.
C29_SwapOnlyForDex2oat ==
    [][dx.a.dexopt_needed # "DEXOPT_DEX2OAT_NEEDED" =>
          (dfs'.swap = dfs.swap /\ SwapFd \notin dx'.open)]_vars

(***************************************************************************)
(* Claims about the input and output of dexopt                             *)
(***************************************************************************)
\* C31: with SELF_PATCHOAT_NEEDED the output path changes only while the
\* input fd is open, the times read for the input are those of the file
\* found at the output path, the child runs on a file made by the call
\* while the input fd is held, and a call that fails after the fork leaves
\* nothing at the output path.
C31_SelfPatchReadsPriorOutput ==
    [][dx.a.dexopt_needed = "DEXOPT_SELF_PATCHOAT_NEEDED" =>
          /\ dfs'.out # dfs.out => InputFd \in dx.open
          /\ (dx.pc = "unlink_out" /\ dfs.out.kind = "file") =>
                (dx.in_time = dfs.out.time /\ dfs'.out = NoFile /\ dfs.out.by = "old")
          /\ dx'.pc = "wait" =>
                (InputFd \in dx'.open /\ dfs'.out.kind = "file" /\ dfs'.out.by = "call")
          /\ (dx'.pc = "done" /\ dx'.forked /\ dx'.ret # 0) =>
                dfs'.out.kind = "absent"]_vars

\* The patch of an existing output failed in the child.
C31_Witness ==
    /\ dx.pc = "done" /\ dx.ret = -1 /\ dx.forked
    /\ dx.a.dexopt_needed = "DEXOPT_SELF_PATCHOAT_NEEDED"
    /\ dx.in_time = "t_old"
    /\ ch.pc = "exited" /\ ch.exit # 0
    /\ dfs.out.kind = "absent"

(***************************************************************************)
(* Claims about flatten_path                                               *)
(***************************************************************************)
\* The overlay path without its leading '/', every '/' replaced by '@'.
C32Flat(overlay) ==
    [i \in 1..(Len(overlay) - 1) |-> IF overlay[i + 1] = "/" THEN "@" ELSE overlay[i + 1]]

\* C32: on an absolute overlay path of at least two characters that fits
\* the buffer, flatten_path returns 0 and leaves the prefix, the flattened
\* overlay path and the suffix in the buffer; in every other case (a null
\* pointer, a relative or too short path, a sum of lengths beyond SIZE_MAX
\* or beyond N) it returns -1 and writes nothing.
C32_FlattenPath ==
    (op.pc = "done" /\ op.fn = "flatten_path") =>
        LET sum == Len(IdmapPrefix) + Len(op.in.overlay) + Len(IdmapSuffix)
            accepted == /\ ~op.in.overlay_null /\ ~op.in.out_null
                        /\ Len(op.in.overlay) >= 2 /\ op.in.overlay[1] = "/"
                        /\ sum <= SizeMax /\ sum <= op.in.N
        IN IF accepted
           THEN op.res = [rc |-> 0,
                          path |-> IdmapPrefix \o C32Flat(op.in.overlay) \o IdmapSuffix]
           ELSE op.res = [rc |-> -1, path |-> <<>>]

\* A path of two directories was flattened into a buffer it just fits.
C32_Witness ==
    /\ op.pc = "done" /\ op.fn = "flatten_path"
    /\ op.in.overlay = <<"/", "a", "/", "a">> /\ op.in.N = 9
    /\ op.res = [rc |-> 0, path |-> <<"/", "r", "/", "a", "@", "a", "@", "i">>]

(***************************************************************************)
(* Claims about get_app_size                                               *)
(***************************************************************************)
\* The entries the walk of get_app_size reads, in order: those of every
\* user whose package directory opens, and only under FLAG_CE_STORAGE.
C34Walked ==
    LET f[k \in 0..Len(op.in.users)] ==
            IF k = 0 THEN <<>>
            ELSE IF op.in.ce /\ op.in.users[k].opened
                 THEN f[k - 1] \o op.in.users[k].entries
            ELSE f[k - 1]
    IN f[Len(op.in.users)]

\* The bucket the specification gives an entry; the directory "." has none.
C34Kind(e) ==
    IF e.name = "." THEN "none"
    ELSE IF e.name = "lib" /\ e.type \in {"dir", "lnk"} THEN "code"
    ELSE IF e.name = "cache" /\ e.type = "dir" THEN "cache"
    ELSE "data"

\* What the entries of es in the buckets kinds add up to: 1 for an entry
\* that can be stat'ed and the size of its subtree for a directory.
C34Sum(es, kinds) ==
    LET g[i \in 0..Len(es)] ==
            IF i = 0 THEN 0
            ELSE g[i - 1] + (IF C34Kind(es[i]) \in kinds
                             THEN (IF es[i].stat_ok THEN 1 ELSE 0) + es[i].sub ELSE 0)
    IN g[Len(es)]

\* C34: get_app_size returns 0; the code bucket grows by the lib directory
\* and the lib symlink, the cache bucket holds the cache directory, the data
\* bucket every other entry (the directory "." apart), each entry once.
C34_AppSizeBuckets ==
    (op.pc = "done" /\ op.fn = "get_app_size") =>
        /\ op.res.rc = 0
        /\ op.res.size.code = op.in.code0 + C34Sum(C34Walked, {"code"})
        /\ op.res.size.cache = C34Sum(C34Walked, {"cache"})
        /\ op.res.size.data = C34Sum(C34Walked, {"data"})
        /\ op.res.size.code + op.res.size.cache + op.res.size.data
              = op.in.code0 + C34Sum(C34Walked, {"code", "cache", "data"})

\* A lib symlink and a symlink named cache were sized: code and data.
C34_Witness ==
    /\ op.pc = "done" /\ op.fn = "get_app_size"
    /\ op.in.ce /\ op.in.code0 = 0 /\ Len(op.in.users) = 1 /\ op.in.users[1].opened
    /\ op.in.users[1].entries =
          <<[name |-> "lib", type |-> "lnk", stat_ok |-> TRUE, sub |-> 0],
            [name |-> "cache", type |-> "lnk", stat_ok |-> TRUE, sub |-> 0]>>
    /\ op.res = [rc |-> 0, size |-> [code |-> 1, data |-> 1, cache |-> 0]]

(***************************************************************************)
(* Claims about movefiles                                                  *)
(***************************************************************************)
\* The newline-terminated lines of a script, in file order.
C38Lines(data) ==
    LET Start(i) == LET Before == {j \in 1..i - 1 : data[j] = "N"}
                    IN IF Before = {} THEN 1
                       ELSE 1 + CHOOSE j \in Before : \A l \in Before : l <= j
        g[i \in 0..Len(data)] ==
            IF i = 0 THEN <<>>
            ELSE IF data[i] = "N" THEN Append(g[i - 1], SubSeq(data, Start(i), i - 1))
            ELSE g[i - 1]
    IN g[Len(data)]

\* The lines of the k-th directory entry that movefiles has to process: none
\* of a directory or of a file that cannot be opened, and not the lines that
\* do not fit the buffer with their newline.
C38Due(k) ==
    LET de == op.entries[k]
    IN IF de.type = "dir" \/ ~de.open_ok THEN <<>>
       ELSE SelectSeq(C38Lines(de.data), LAMBDA l : Len(l) < BufMax)

\* C38: when movefiles is done and no read failed, the lines it processed
\* are the newline-terminated lines of every script, each once and in file
\* order, the lines longer than the buffer apart.
C38_EveryLineOnceInOrder ==
    (op.fn = "movefiles" /\ op.pc = "done" /\ op.dir_ok /\ ~op.rderr) =>
        LET f[k \in 0..Len(op.entries)] ==
                IF k = 0 THEN <<>>
                ELSE f[k - 1] \o [i \in 1..Len(C38Due(k)) |-> <<k, C38Due(k)[i]>>]
        IN op.lines = f[Len(op.entries)]

\* The moves that the lines ls of one script ask for, as the specification
\* reads them: a path line moves iff the most recent line dst:src named two
\* packages whose names fit and whose directories exist.
C33Moves(ls) ==
    LET Uid(pkg) == IF pkg = <<"g">> THEN 1 ELSE IF pkg = <<"h">> THEN 2 ELSE -1
        Body(l) == SelectSeq(l, LAMBDA c : c # "_")
        Div(l) == CHOOSE i \in 1..Len(l) : l[i] = ":" /\ \A j \in 1..i - 1 : l[j] # ":"
        Dst(l) == SubSeq(l, 1, Div(l) - 1)
        Src(l) == SubSeq(l, Div(l) + 1, Len(l))
        IsPath(l) == l # <<>> /\ l[1] = "_" /\ Body(l) # <<>> /\ Body(l)[1] # "#"
        IsPkg(l) == l # <<>> /\ l[1] \notin {"_", "#"} /\ \E i \in 1..Len(l) : l[i] = ":"
        Valid(l) == /\ Len(Dst(l)) < NameMax /\ Len(Src(l)) < NameMax
                    /\ Uid(Dst(l)) # -1 /\ Uid(Src(l)) # -1
        g[i \in 0..Len(ls)] ==
            IF i = 0 THEN [pkg |-> <<>>, moves |-> <<>>]
            ELSE IF IsPkg(ls[i]) THEN [g[i - 1] EXCEPT !.pkg = ls[i]]
            ELSE IF IsPath(ls[i]) /\ g[i - 1].pkg # <<>> /\ Valid(g[i - 1].pkg)
                 THEN [g[i - 1] EXCEPT !.moves =
                          Append(@, [src |-> Src(g[i - 1].pkg), dst |-> Dst(g[i - 1].pkg),
                                     path |-> Body(ls[i]), uid |-> Uid(Dst(g[i - 1].pkg))])]
            ELSE g[i - 1]
    IN g[Len(ls)].moves

\* C33: when movefiles is done and no read failed, the moves it attempted
\* are those of the path lines of every script that follow a valid package
\* line of the same script, from that line's source to its destination and
\* with the uid of the destination package directory.
C33_MovesFollowPackageLine ==
    (op.fn = "movefiles" /\ op.pc = "done" /\ op.dir_ok /\ ~op.rderr) =>
        LET f[k \in 0..Len(op.entries)] ==
                IF k = 0 THEN <<>>
                ELSE IF op.entries[k].type = "dir" \/ ~op.entries[k].open_ok THEN f[k - 1]
                ELSE f[k - 1] \o C33Moves(C38Lines(op.entries[k].data))
        IN op.st.moves = f[Len(op.entries)]

\* C39: every call of movefiles comes to its end and returns 0.
C39_MovefilesReturnsZero ==
    (op.fn = "movefiles") ~> (op.fn = "movefiles" /\ op.pc = "done" /\ op.ret = 0)

\* movefiles is done after a failed read in the first script, a line that
\* does not fit the buffer and a second script.
C39_Witness ==
    /\ op.fn = "movefiles" /\ op.pc = "done" /\ op.ret = 0
    /\ op.rderr /\ op.k = 2 /\ op.lines # <<>>
    /\ \E l \in 1..Len(C38Lines(op.entries[1].data)) :
          Len(C38Lines(op.entries[1].data)[l]) >= BufMax

(***************************************************************************)
(* Claims about overlapping invocations, rollbacks and descriptors         *)
(***************************************************************************)
\* C35: of two dexopt invocations for one output path, the one that fails
\* takes away at most the file it created itself: its step from fail to the
\* return leaves the output path as it is unless that path names its own
\* file.
C35_RollbackUnlinksOwnFile ==
    [][\A i \in Procs :
          (rx.p[i].pc = "fail" /\ rx'.p[i].pc = "done") =>
              (rx'.path = rx.path \/ rx.path = Inode(i))]_vars

\* C36: after a failed move_complete_app, the destination package directory
\* of a user without source data, which the copy loop skips or never
\* reaches, is as it was before the call.
C36_RollbackLeavesSkippedUsers ==
    (mv.pc = "done" /\ mv.ret = -1) =>
        \A u \in Users :
            mv.fs0[create_data_user_package_path(mv.from, u)] = "absent" =>
                mfs[create_data_user_package_path(mv.to, u)] =
                    mv.fs0[create_data_user_package_path(mv.to, u)]

\* C37: free_cache for a volume other than the internal one collects cache
\* roots from that volume's user root alone: neither the owner's internal
\* directory nor a directory of android_media_dir is among its roots.
C37_OtherVolumeOwnRootsOnly ==
    fc.uuid # "null" => \A r \in fc.roots : r.root = "user"

\* C40: when open_profile_files has returned, every fd in the two lists is
\* open, and no profile or reference-profile fd of a user whose pair was not
\* added is.
C40_UnlistedProfileFdsClosed ==
    (dx.pc = "guard" \/ (dx.pc = "done" /\ dx.how = "skip")) =>
        /\ ProfileListFds(dx) \subseteq dx.open
        /\ \A u \in Users \ dx.lists :
              ProfileFd(u) \notin dx.open /\ ReferenceProfileFd(u) \notin dx.open

====
